---- MODULE Spec2Model ----
(***************************************************************************)
(* A model of the tiled grid-check engine of mbes-grid-checks:             *)
(*   lib/tiling.py        get_tiles                                        *)
(*   lib/gridcheck.py     GridCheck (status machine, get_param)            *)
(*   lib/mbesgridcheck.py DensityCheck, TvuCheck, ResolutionCheck          *)
(*   lib/executor.py      Executor.run / _run_checks                       *)
(*   qax/plugin.py        the caller that collects get_outputs             *)
(*                                                                         *)
(* Real-valued parameters and cell values are scaled to integers; every    *)
(* comparison of the code is kept as an exact comparison of rationals.     *)
(***************************************************************************)
EXTENDS Integers, Sequences, FiniteSets, TLC

VARIABLES
    pc,                  \* position of the modelled call
    call,                \* the arguments of a call of a pure function
    ret,                 \* what that call returned
    exe,                 \* the Executor object (executor.py __init__)
    loop,                \* the loop position of Executor.run / _run_checks
    outputs,             \* the check outputs collected by the caller
    env                  \* what surrounds the Executor: the is_stopped
                         \* callable given to run, the temporary directories
                         \* on disk, the number of calls of run

vars == <<pc, call, ret, exe, loop, outputs, env>>

\* ------------------------------------------------------------------ bounds

\* pixel coordinates of the windows handed to get_tiles lie in -1..MaxCoord
MaxCoord == 5
\* tile sizes lie in 1..MaxTile
MaxTile == 3
\* a raster handed to the Executor has at most MaxCells cells
MaxCells == 4
\* run is called at most MaxRuns times on one Executor
MaxRuns == 2

\* ------------------------------------------------------------- helpers

Min2(a, b) == IF a < b THEN a ELSE b
Abs(v) == IF v < 0 THEN 0 - v ELSE v

RECURSIVE SumOver(_, _)
\* the sum of f[k] over the keys k of the finite set S
SumOver(f, S) ==
    IF S = {} THEN 0
    ELSE LET k == CHOOSE e \in S : TRUE IN f[k] + SumOver(f, S \ {k})

Idle == [none |-> TRUE]

RECURSIVE Gcd(_, _)
Gcd(a, b) == IF b = 0 THEN a ELSE Gcd(b, a % b)

\* the fractions of the progress arithmetic, kept exact and in lowest terms
Rational(n, d) == LET g == Gcd(Abs(n), d) IN [n |-> n \div g, d |-> d \div g]
Plus(x, y) == Rational(x.n * y.d + y.n * x.d, x.d * y.d)
Minus(x, y) == Rational(x.n * y.d - y.n * x.d, x.d * y.d)
Times(x, y) == Rational(x.n * y.n, x.d * y.d)
AtMost(x, y) == x.n * y.d <= y.n * x.d

\* ------------------------------------------------------------- tiling.py

Tile(min_x, min_y, max_x, max_y) ==
    [min_x |-> min_x, min_y |-> min_y, max_x |-> max_x, max_y |-> max_y]

width(t) == t.max_x - t.min_x
height(t) == t.max_y - t.min_y

\* Python's range(a, b, s) for a step s > 0, as a sequence
Range(a, b, s) ==
    LET n == IF b <= a THEN 0 ELSE (b - a + s - 1) \div s
    IN  [i \in 1..n |-> a + (i - 1) * s]

\* the clamp of tiling.py lines 77 and 80 left out: edge tiles overrun
get_tiles_noclamp(min_x, min_y, max_x, max_y, size_x, size_y) ==
    LET ys == Range(min_y, max_y, size_y)
        xs == Range(min_x, max_x, size_x)
        nx == Len(xs)
    IN  [i \in 1..(Len(ys) * nx) |->
            LET y == ys[((i - 1) \div nx) + 1]
                x == xs[((i - 1) % nx) + 1]
            IN  Tile(x, y, x + size_x, y + size_y)]

\* get_tiles: the outer loop over y, the inner loop over x, each appended tile
\* clamped to the window (the remainders rX, rY of lines 71-72 are never used)
get_tiles(min_x, min_y, max_x, max_y, size_x, size_y) ==
    LET ys == Range(min_y, max_y, size_y)
        xs == Range(min_x, max_x, size_x)
        nx == Len(xs)
    IN  [i \in 1..(Len(ys) * nx) |->
            LET y == ys[((i - 1) \div nx) + 1]
                x == xs[((i - 1) % nx) + 1]
                next_y == IF y + size_y > max_y THEN max_y ELSE y + size_y
                next_x == IF x + size_x > max_x THEN max_x ELSE x + size_x
            IN  Tile(x, y, next_x, next_y)]

\* the asserts of get_tiles (lines 62-65)
get_tiles_asserts(a) ==
    /\ a.min_x < a.max_x
    /\ a.min_y < a.max_y
    /\ a.size_x # 0
    /\ a.size_y # 0

\* ------------------------------------------------ specification: tiling

TileExample ==
    [min_x |-> 0, min_y |-> 0, max_x |-> 14, max_y |-> 10, size_x |-> 5, size_y |-> 3]

TileArgs ==
    { [min_x |-> a, min_y |-> b, max_x |-> c, max_y |-> d, size_x |-> sx, size_y |-> sy] :
        a \in -1..1, b \in -1..1, c \in 0..MaxCoord, d \in 0..MaxCoord,
        sx \in 1..MaxTile, sy \in 1..MaxTile }
    \cup {TileExample}

InitTiles ==
    /\ pc = "call"
    /\ call \in {a \in TileArgs : get_tiles_asserts(a)}
    /\ ret = <<>>
    /\ exe = Idle
    /\ loop = Idle
    /\ outputs = Idle
    /\ env = Idle

CallGetTiles ==
    /\ pc = "call"
    /\ pc' = "returned"
    /\ ret' = get_tiles(call.min_x, call.min_y, call.max_x, call.max_y,
                        call.size_x, call.size_y)
    /\ UNCHANGED <<call, exe, loop, outputs, env>>

NextTiles == CallGetTiles

SpecTiles == InitTiles /\ [][NextTiles]_vars

InTile(x, y, t) == t.min_x <= x /\ x < t.max_x /\ t.min_y <= y /\ y < t.max_y

\* C1: get_tiles returns an exact partition of the half-open window: every
\* pixel lies in exactly one tile, no tile leaves the window, every tile is
\* non-empty and at most size_x by size_y, only tiles that end at the window's
\* edge are truncated, and the tiles come in row-major order starting at
\* (min_x, min_y); get_tiles(0,0,14,10,5,3) gives 12 tiles from (0,0,5,3) to
\* (10,9,14,10).
C1_TilesPartition ==
    pc = "returned" =>
        /\ \A x \in call.min_x..(call.max_x - 1) : \A y \in call.min_y..(call.max_y - 1) :
              Cardinality({i \in 1..Len(ret) : InTile(x, y, ret[i])}) = 1
        /\ \A i \in 1..Len(ret) :
              /\ call.min_x <= ret[i].min_x /\ ret[i].max_x <= call.max_x
              /\ call.min_y <= ret[i].min_y /\ ret[i].max_y <= call.max_y
              /\ 0 < width(ret[i]) /\ width(ret[i]) <= call.size_x
              /\ 0 < height(ret[i]) /\ height(ret[i]) <= call.size_y
              /\ width(ret[i]) < call.size_x => ret[i].max_x = call.max_x
              /\ height(ret[i]) < call.size_y => ret[i].max_y = call.max_y
        /\ Len(ret) > 0
        /\ ret[1].min_x = call.min_x /\ ret[1].min_y = call.min_y
        /\ \A i \in 1..(Len(ret) - 1) :
              \/ ret[i].min_y = ret[i + 1].min_y /\ ret[i].max_x = ret[i + 1].min_x
              \/ /\ ret[i].max_y = ret[i + 1].min_y
                 /\ ret[i].max_x = call.max_x
                 /\ ret[i + 1].min_x = call.min_x
        /\ call = TileExample =>
              /\ Len(ret) = 12
              /\ ret[1] = Tile(0, 0, 5, 3)
              /\ ret[12] = Tile(10, 9, 14, 10)

\* a window that needs several tiles, the last of them truncated both ways
C1_Witness ==
    /\ pc = "returned"
    /\ Len(ret) > 1
    /\ width(ret[Len(ret)]) < call.size_x
    /\ height(ret[Len(ret)]) < call.size_y

\* ---------------------------------------------------------------- data.py

BandTypes == {"depth", "density", "uncertainty", "pinkChart"}

\* InputFileDetails.get_band: the first band of the type, or (None, None)
get_band(ifd, band_type) ==
    IF ifd.bands[band_type].present THEN ifd.bands[band_type] ELSE [present |-> FALSE, nodata |-> FALSE]

\* InputFileDetails.add_band_details: (input_file, band_index, band_type) is
\* appended to input_band_details
add_band_details(self, input_file, band_index, band_type) ==
    [self EXCEPT !.input_band_details =
        Append(@, [input_file |-> input_file, band_index |-> band_index,
                   band_type |-> band_type])]

\* InputFileDetails.clone: a new object (oid) whose source is this one; size,
\* geotransform, coverage vector and check list are copied, the band details
\* are not
clone(self, oid) ==
    [self EXCEPT !.oid = oid,
                 !.source = self.oid,
                 !.input_band_details = <<>>,
                 !.bands = [b \in BandTypes |-> [present |-> FALSE, nodata |-> FALSE]]]

\* ------------------------------------------------- executor.py: loading

\* the value a band stores where it has no data (GetNoDataValue)
NoDataValue == -9999

TileCells(tile) ==
    {<<x, y>> : x \in tile.min_x..(tile.max_x - 1), y \in tile.min_y..(tile.max_y - 1)}

NoArray == [kind |-> "None", val |-> <<>>, mask |-> <<>>]

\* Executor._load_band_tile: None when the band was not given; a masked array
\* (masked where the value is the nodata value) when the band declares a
\* nodata value, a plain ndarray when it declares none
_load_band_tile(ifd, band_type, tile) ==
    LET b == get_band(ifd, band_type)
        band_data == [c \in TileCells(tile) |-> ifd.data[c][band_type]]
    IN  IF ~b.present THEN NoArray
        ELSE IF ~b.nodata
             THEN [kind |-> "ndarray", val |-> band_data,
                   mask |-> [c \in TileCells(tile) |-> FALSE]]
             ELSE [kind |-> "masked", val |-> band_data,
                   mask |-> [c \in TileCells(tile) |-> band_data[c] = NoDataValue]]

\* Executor._load_data (the pink chart band is loaded and handed to run, which
\* never reads it)
_load_data(ifd, tile) ==
    [depth |-> _load_band_tile(ifd, "depth", tile),
     density |-> _load_band_tile(ifd, "density", tile),
     uncertainty |-> _load_band_tile(ifd, "uncertainty", tile),
     pinkchart |-> _load_band_tile(ifd, "pinkChart", tile)]

\* numpy.ma count(): the number of elements that are not masked
count(arr) == Cardinality({c \in DOMAIN arr.val : ~arr.mask[c]})

\* ------------------------------------------------------------ gridcheck.py

DensityId == "5e2afd8a-2ced-4de8-80f5-111c459a7175"
TvuId == "b5c0469c-6559-4aea-bf9c-d0b337550e89"
ResolutionId == "c73119ea-4f79-4001-86e3-11c4cbaaeb2d"

\* the check registry (all_checks) and check_utils.get_check
all_checks == {DensityId, TvuId, ResolutionId}
get_check(id, check_classes) == IF id \in check_classes THEN id ELSE "None"

\* start_time / end_time is None
NoTime == 0

NoParam == [status |-> "None", value |-> 0]

\* GridCheck.get_param: None for an empty list, the value of the first
\* parameter of that name otherwise; next() raises StopIteration when no
\* parameter has the name
get_param(input_params, param_name) ==
    IF Len(input_params) = 0 THEN NoParam
    ELSE LET hits == {i \in 1..Len(input_params) : input_params[i].name = param_name}
         IN  IF hits = {} THEN [status |-> "StopIteration", value |-> 0]
             ELSE LET first == CHOOSE i \in hits : \A j \in hits : i <= j
                  IN  [status |-> "value", value |-> input_params[first].value]

EmptyHist == [k \in {} |-> 0]

\* GridCheck.__init__, with every attribute a subclass may hold; attrs names
\* the attributes that exist on the instance among those that no __init__
\* creates for every class
GridCheck(id, input_params) ==
    [id |-> id,
     input_params |-> input_params,
     start_time |-> NoTime,
     end_time |-> NoTime,
     execution_status |-> "draft",
     error_message |-> "None",
     attrs |-> {},
     p |-> [n \in {} |-> NoParam],
     density_histogram |-> EmptyHist,
     total_cell_count |-> 0,
     failed_cell_count |-> 0,
     grid_resolution |-> 0]

\* check_started leaving the status as it is
check_started_keeps_status(self, now) ==
    [self EXCEPT !.start_time = IF self.start_time = NoTime THEN now ELSE self.start_time]

\* GridCheck.check_started at the clock value now
check_started(self, now) ==
    [self EXCEPT !.start_time = IF self.start_time = NoTime THEN now ELSE self.start_time,
                 !.execution_status = "running"]

\* check_ended overwriting the status whatever it is
check_ended_always(self, now) ==
    [self EXCEPT !.end_time = now, !.execution_status = "completed"]

\* GridCheck.check_ended at the clock value now
check_ended(self, now) ==
    [self EXCEPT !.end_time = now,
                 !.execution_status =
                    IF self.execution_status = "running" THEN "completed"
                    ELSE self.execution_status]

\* what a call that may raise gives back: the object as the call left it
Ok(check) == [raised |-> FALSE, error |-> "None", check |-> check]
Raise(error, check) == [raised |-> TRUE, error |-> error, check |-> check]

\* the cells of an array that a comparison marks: a masked operand gives a
\* masked result, which filled() with fill_value False turns into False
Unmasked(arr) == {c \in DOMAIN arr.val : ~arr.mask[c]}

\* -------------------------------------------------------- mbesgridcheck.py

\* the attributes every subclass __init__ adds: tiles_geojson as the set of
\* tiles that contributed failure polygons
Subclass(self) ==
    [id |-> self.id,
     input_params |-> self.input_params,
     start_time |-> self.start_time,
     end_time |-> self.end_time,
     execution_status |-> self.execution_status,
     error_message |-> self.error_message,
     attrs |-> self.attrs,
     p |-> self.p,
     density_histogram |-> self.density_histogram,
     total_cell_count |-> self.total_cell_count,
     failed_cell_count |-> self.failed_cell_count,
     grid_resolution |-> self.grid_resolution,
     tiles_geojson |-> {},
     has_extents |-> FALSE,
     exported |-> {},
     spatial_export |-> FALSE,
     spatial_export_location |-> FALSE,
     spatial_qajson |-> FALSE]

DensityParams ==
    {"Minimum Soundings per node", "Minimum Soundings per node percentage"}
TvuParams ==
    {"Constant Depth Error", "Factor of Depth Dependent Errors"}
ResolutionParams ==
    {"Feature Detection Size Multiplier", "Threshold Depth",
     "Above Threshold FDS Depth Multiplier", "Above Threshold FDS Depth Constant",
     "Below Threshold FDS Depth Multiplier", "Below Threshold FDS Depth Constant"}

ParamsOf(id) ==
    IF id = DensityId THEN DensityParams
    ELSE IF id = TvuId THEN TvuParams
    ELSE ResolutionParams

\* DensityCheck.__init__, TvuCheck.__init__ and ResolutionCheck.__init__: the
\* parameters are read with get_param, which may raise; TvuCheck and
\* ResolutionCheck start total_cell_count and failed_cell_count at 0,
\* DensityCheck creates neither
NewCheck(id, input_params) ==
    LET base == Subclass(GridCheck(id, input_params))
        p == [n \in ParamsOf(id) |-> get_param(input_params, n)]
        withp == [base EXCEPT !.p = p]
    IN  IF \E n \in ParamsOf(id) : p[n].status = "StopIteration"
        THEN Raise("StopIteration", base)
        ELSE IF id = DensityId THEN Ok(withp)
        ELSE Ok([withp EXCEPT !.attrs = {"total_cell_count", "failed_cell_count"}])

\* the spatial part shared by the three run methods once the failure mask
\* (the set of failed cells) is known: polygons for the QA-JSON when
\* spatial_qajson, exported files when spatial_export
Spatial(self, tile, failed_cells) ==
    LET q == IF self.spatial_qajson
             THEN [self EXCEPT !.has_extents = TRUE,
                               !.tiles_geojson =
                                   IF failed_cells = {} THEN @ ELSE @ \cup {tile}]
             ELSE self
    IN  IF q.spatial_export THEN [q EXCEPT !.exported = @ \cup {tile}] ELSE q

\* the gate before the spatial part (lines 100, 455, 820)
NoSpatial(self) == ~(self.spatial_export \/ self.spatial_export_location)

\* DensityCheck.run
DensityRun(self, ifd, tile, d) ==
    IF d.density.kind = "None"
    THEN Ok([self EXCEPT !.execution_status = "aborted",
                         !.error_message = "Missing density data",
                         !.density_histogram = EmptyHist,
                         !.attrs = @ \cup {"density_histogram"}])
    ELSE IF d.density.kind = "ndarray"
    THEN Raise("'numpy.ndarray' object has no attribute 'count'", self)
    ELSE
    LET total == count(d.density)
        s1 == [self EXCEPT !.total_cell_count = total,
                           !.attrs = @ \cup {"total_cell_count", "density_histogram"}]
        vals == {d.density.val[c] : c \in Unmasked(d.density)}
        hist == [v \in vals |->
                    Cardinality({c \in Unmasked(d.density) : d.density.val[c] = v})]
        s2 == [s1 EXCEPT !.density_histogram = hist]
        min_spn == self.p["Minimum Soundings per node"]
    IN  IF total = 0 THEN Ok([s1 EXCEPT !.density_histogram = EmptyHist])
        ELSE IF NoSpatial(self) THEN Ok(s2)
        ELSE IF min_spn.status = "None"
        THEN Raise("'<' not supported between instances of 'int' and 'NoneType'", s2)
        ELSE Ok(Spatial(s2, tile,
                   {c \in Unmasked(d.density) : d.density.val[c] < min_spn.value}))

\* TvuCheck.run with the failures counted over every cell with an uncertainty,
\* whether or not its depth is masked
TvuRunDepthMaskIgnored(self, ifd, tile, d) ==
    LET missing_depth == d.depth.kind = "None"
        missing_uncertainty == d.uncertainty.kind = "None"
        a == self.p["Constant Depth Error"]
        b == self.p["Factor of Depth Dependent Errors"]
        total == count(d.uncertainty)
        s1 == [self EXCEPT !.total_cell_count = total]
        \* |u| > sqrt(a^2 + (b * depth)^2), both sides being non-negative
        failed == {c \in Unmasked(d.uncertainty) :
                      Abs(d.uncertainty.val[c]) * Abs(d.uncertainty.val[c])
                        > a.value * a.value
                          + (b.value * d.depth.val[c]) * (b.value * d.depth.val[c])}
        s2 == [s1 EXCEPT !.failed_cell_count = Cardinality(failed)]
    IN  IF missing_depth /\ missing_uncertainty
        THEN Ok([self EXCEPT !.execution_status = "aborted",
                             !.error_message = "Missing depth and uncertainty data"])
        ELSE IF missing_depth
        THEN Ok([self EXCEPT !.execution_status = "aborted",
                             !.error_message = "Missing depth data"])
        ELSE IF missing_uncertainty
        THEN Ok([self EXCEPT !.execution_status = "aborted",
                             !.error_message = "Missing uncertainty data"])
        ELSE IF d.uncertainty.kind = "ndarray"
        THEN Raise("'numpy.ndarray' object has no attribute 'count'", self)
        ELSE IF total = 0 THEN Ok([s1 EXCEPT !.failed_cell_count = 0])
        ELSE IF a.status = "None" \/ b.status = "None"
        THEN Raise("unsupported operand type(s): 'NoneType'", s1)
        ELSE IF NoSpatial(self) THEN Ok(s2)
        ELSE Ok(Spatial(s2, tile, failed))

\* TvuCheck.run
TvuRun(self, ifd, tile, d) ==
    LET missing_depth == d.depth.kind = "None"
        missing_uncertainty == d.uncertainty.kind = "None"
        a == self.p["Constant Depth Error"]
        b == self.p["Factor of Depth Dependent Errors"]
        total == count(d.uncertainty)
        s1 == [self EXCEPT !.total_cell_count = total]
        \* |u| > sqrt(a^2 + (b * depth)^2), both sides being non-negative
        failed == {c \in Unmasked(d.uncertainty) \cap Unmasked(d.depth) :
                      Abs(d.uncertainty.val[c]) * Abs(d.uncertainty.val[c])
                        > a.value * a.value
                          + (b.value * d.depth.val[c]) * (b.value * d.depth.val[c])}
        s2 == [s1 EXCEPT !.failed_cell_count = Cardinality(failed)]
    IN  IF missing_depth /\ missing_uncertainty
        THEN Ok([self EXCEPT !.execution_status = "aborted",
                             !.error_message = "Missing depth and uncertainty data"])
        ELSE IF missing_depth
        THEN Ok([self EXCEPT !.execution_status = "aborted",
                             !.error_message = "Missing depth data"])
        ELSE IF missing_uncertainty
        THEN Ok([self EXCEPT !.execution_status = "aborted",
                             !.error_message = "Missing uncertainty data"])
        ELSE IF d.uncertainty.kind = "ndarray"
        THEN Raise("'numpy.ndarray' object has no attribute 'count'", self)
        ELSE IF total = 0 THEN Ok([s1 EXCEPT !.failed_cell_count = 0])
        ELSE IF a.status = "None" \/ b.status = "None"
        THEN Raise("unsupported operand type(s): 'NoneType'", s1)
        ELSE IF NoSpatial(self) THEN Ok(s2)
        ELSE Ok(Spatial(s2, tile, failed))

\* the piecewise feature detection size with a depth at the threshold put on
\* the above-threshold line
fds_at_threshold_above(self, abs_depth) ==
    IF abs_depth <= Abs(self.p["Threshold Depth"].value)
    THEN self.p["Above Threshold FDS Depth Multiplier"].value * abs_depth
            + self.p["Above Threshold FDS Depth Constant"].value
    ELSE self.p["Below Threshold FDS Depth Multiplier"].value * abs_depth
            + self.p["Below Threshold FDS Depth Constant"].value

\* the piecewise feature detection size of ResolutionCheck.run (np.piecewise)
fds(self, abs_depth) ==
    IF abs_depth < Abs(self.p["Threshold Depth"].value)
    THEN self.p["Above Threshold FDS Depth Multiplier"].value * abs_depth
            + self.p["Above Threshold FDS Depth Constant"].value
    ELSE self.p["Below Threshold FDS Depth Multiplier"].value * abs_depth
            + self.p["Below Threshold FDS Depth Constant"].value

\* ResolutionCheck.run
ResolutionRun(self, ifd, tile, d) ==
    LET total == count(d.depth)
        s0 == [self EXCEPT !.grid_resolution = ifd.geotransform[2],
                           !.attrs = @ \cup {"grid_resolution"}]
        s1 == [s0 EXCEPT !.total_cell_count = total]
        failed == {c \in Unmasked(d.depth) :
                      fds(self, Abs(d.depth.val[c]))
                         * self.p["Feature Detection Size Multiplier"].value
                        < s0.grid_resolution}
        s2 == [s1 EXCEPT !.failed_cell_count = Cardinality(failed)]
    IN  IF d.depth.kind = "None"
        THEN Ok([self EXCEPT !.execution_status = "aborted",
                             !.error_message = "Missing depth data"])
        ELSE IF d.depth.kind = "ndarray"
        THEN Raise("'numpy.ndarray' object has no attribute 'count'", s0)
        ELSE IF total = 0 THEN Ok([s1 EXCEPT !.failed_cell_count = 0])
        ELSE IF \E n \in ResolutionParams : self.p[n].status = "None"
        THEN Raise("unsupported operand type(s): 'NoneType'", s1)
        ELSE IF NoSpatial(self) THEN Ok(s2)
        ELSE Ok(Spatial(s2, tile, failed))

\* check.run, dispatched on the class
Run(self, ifd, tile, d) ==
    IF self.id = DensityId THEN DensityRun(self, ifd, tile, d)
    ELSE IF self.id = TvuId THEN TvuRun(self, ifd, tile, d)
    ELSE ResolutionRun(self, ifd, tile, d)

\* GridCheck._merge_temp_dirs: the exported files of the other instance are
\* kept with those of this one
_merge_temp_dirs(self, last_check) ==
    [self EXCEPT !.exported = @ \cup last_check.exported]

\* the merge loop with "=" where the code has "+=": a shared bucket keeps only
\* the other instance's count
MergeHistOverwrite(mine, last) ==
    [k \in DOMAIN mine \cup DOMAIN last |->
        IF k \in DOMAIN last THEN last[k] ELSE mine[k]]

\* the merge loop of DensityCheck.merge_results, lines 249-253
MergeHist(mine, last) ==
    [k \in DOMAIN mine \cup DOMAIN last |->
        IF k \in DOMAIN last
        THEN IF k \in DOMAIN mine THEN mine[k] + last[k] ELSE last[k]
        ELSE mine[k]]

\* DensityCheck.merge_results: reading a density_histogram that run never
\* created raises AttributeError (self's is read only inside the loop)
DensityMerge(self, last_check) ==
    LET s1 == [self EXCEPT !.start_time = last_check.start_time]
    IN  IF "density_histogram" \notin last_check.attrs
        THEN Raise("'DensityCheck' object has no attribute 'density_histogram'", s1)
        ELSE IF DOMAIN last_check.density_histogram # {}
                /\ "density_histogram" \notin self.attrs
        THEN Raise("'DensityCheck' object has no attribute 'density_histogram'", s1)
        ELSE Ok(_merge_temp_dirs(
                [s1 EXCEPT !.density_histogram =
                               MergeHist(self.density_histogram, last_check.density_histogram),
                           !.tiles_geojson = @ \cup last_check.tiles_geojson],
                last_check))

\* merge_results keeping this tile's counts only
CountsMergeKeepOwn(self, last_check) ==
    Ok(_merge_temp_dirs(
        [self EXCEPT !.start_time = last_check.start_time,
                     !.tiles_geojson = @ \cup last_check.tiles_geojson],
        last_check))

\* TvuCheck.merge_results and ResolutionCheck.merge_results
CountsMerge(self, last_check) ==
    Ok(_merge_temp_dirs(
        [self EXCEPT !.start_time = last_check.start_time,
                     !.total_cell_count = @ + last_check.total_cell_count,
                     !.failed_cell_count = @ + last_check.failed_cell_count,
                     !.tiles_geojson = @ \cup last_check.tiles_geojson],
        last_check))

\* check.merge_results, dispatched on the class
merge_results(self, last_check) ==
    IF self.id = DensityId THEN DensityMerge(self, last_check)
    ELSE CountsMerge(self, last_check)

\* ------------------------------------------------------------ get_outputs

EmptyData == [keys |-> {}, total_soundings |-> 0, under_threshold_soundings |-> 0,
           percentage_over_threshold |-> <<0, 1>>,
           failed_cell_count |-> 0, total_cell_count |-> 0,
           fraction_failed |-> <<0, 1>>]

Outputs(check_state, messages, data) ==
    [raised |-> FALSE, error |-> "None", check_state |-> check_state,
     messages |-> messages, data |-> data]

OutputsRaise(error) ==
    [raised |-> TRUE, error |-> error, check_state |-> "None",
     messages |-> <<>>, data |-> EmptyData]

RECURSIVE UnderThresholdGT(_, _, _)
\* the walk with ">" where the code has ">=": a count equal to the threshold
\* is taken as under it
UnderThresholdGT(counts, keys, min_spn) ==
    IF keys = {} THEN 0
    ELSE LET sounding_count == CHOOSE k \in keys : \A j \in keys : k <= j
         IN  IF sounding_count > min_spn THEN 0
             ELSE counts[sounding_count]
                    + UnderThresholdGT(counts, keys \ {sounding_count}, min_spn)

RECURSIVE UnderThreshold(_, _, _)
\* lines 294-298: walk the sounding counts in ascending order and add up the
\* occurrences until the first count that reaches the threshold
UnderThreshold(counts, keys, min_spn) ==
    IF keys = {} THEN 0
    ELSE LET sounding_count == CHOOSE k \in keys : \A j \in keys : k <= j
         IN  IF sounding_count >= min_spn THEN 0
             ELSE counts[sounding_count]
                    + UnderThreshold(counts, keys \ {sounding_count}, min_spn)

\* DensityCheck.get_outputs; percentage_over_threshold
\* (1 - under / total) * 100 is kept as the fraction <<(total - under) * 100, total>>
DensityOutputs(self) ==
    LET counts == self.density_histogram
        min_spn == self.p["Minimum Soundings per node"]
        min_spn_p == self.p["Minimum Soundings per node percentage"]
        total_soundings == SumOver(counts, DOMAIN counts)
        under == UnderThreshold(counts, DOMAIN counts, min_spn.value)
        fail == (total_soundings - under) * 100 < min_spn_p.value * total_soundings
        data == [EmptyData EXCEPT
                    !.keys = {"chart", "summary"}
                             \cup (IF self.spatial_qajson THEN {"map", "extents"} ELSE {}),
                    !.total_soundings = total_soundings,
                    !.under_threshold_soundings = under,
                    !.percentage_over_threshold =
                        <<(total_soundings - under) * 100, total_soundings>>]
    IN  IF "density_histogram" \notin self.attrs
        THEN OutputsRaise("'DensityCheck' object has no attribute 'density_histogram'")
        ELSE IF DOMAIN counts = {}
        THEN Outputs("fail",
                     <<"No counts were extracted, was a valid raster provided">>, EmptyData)
        ELSE IF min_spn.status = "None" \/ min_spn_p.status = "None"
        THEN OutputsRaise("'>=' not supported between instances of 'int' and 'NoneType'")
        ELSE IF fail
        THEN Outputs("fail", <<"% of nodes were found to have a sounding count above">>, data)
        ELSE Outputs("pass", <<>>, data)

\* TvuCheck.get_outputs and ResolutionCheck.get_outputs; fraction_failed is
\* kept as the fraction <<failed_cell_count, total_cell_count>>
CountsOutputs(self) ==
    LET completed == self.execution_status = "completed"
        data == IF completed
                THEN [EmptyData EXCEPT
                        !.keys = {"failed_cell_count", "total_cell_count", "fraction_failed"}
                                 \cup (IF self.id = ResolutionId THEN {"grid_resolution"} ELSE {})
                                 \cup (IF self.spatial_qajson THEN {"map", "extents"} ELSE {}),
                        !.failed_cell_count = self.failed_cell_count,
                        !.total_cell_count = self.total_cell_count,
                        !.fraction_failed = <<self.failed_cell_count, self.total_cell_count>>]
                ELSE EmptyData
    IN  IF completed /\ self.total_cell_count = 0
        THEN OutputsRaise("division by zero")
        ELSE IF self.execution_status = "aborted"
        THEN Outputs("fail", <<self.error_message>>, data)
        ELSE IF self.failed_cell_count > 0
        THEN IF self.total_cell_count = 0
             THEN OutputsRaise("division by zero")
             ELSE Outputs("fail", <<"nodes failed the check">>, data)
        ELSE Outputs("pass", <<>>, data)

\* check.get_outputs, dispatched on the class
get_outputs(self) ==
    IF self.id = DensityId THEN DensityOutputs(self) ELSE CountsOutputs(self)

\* ------------------------------------------------------------ executor.py

\* Executor.__init__ for the given input file details and tile sizes
Executor(input_file_details, tile_size_x, tile_size_y, spatial) ==
    [input_file_details |-> input_file_details,
     tile_size_x |-> tile_size_x,
     tile_size_y |-> tile_size_y,
     checks |-> all_checks,
     check_result_cache |-> <<>>,
     spatial_export |-> spatial.spatial_export,
     spatial_export_location |-> spatial.spatial_export_location,
     spatial_qajson |-> spatial.spatial_qajson,
     temp_dirs |-> <<>>,
     source_input_file_details |-> <<>>]

\* the position of (src_ifd, check_id) in check_result_cache, 0 when absent
CacheIndex(cache, src_ifd, check_id) ==
    LET hits == {i \in 1..Len(cache) : cache[i].ifd = src_ifd /\ cache[i].check_id = check_id}
    IN  IF hits = {} THEN 0 ELSE CHOOSE i \in hits : TRUE

\* check_result_cache[(src_ifd, check_id)] = check: a new key is appended, a
\* known key keeps its place
CachePut(cache, src_ifd, check_id, check) ==
    LET i == CacheIndex(cache, src_ifd, check_id)
        entry == [ifd |-> src_ifd, check_id |-> check_id, check |-> check]
    IN  IF i = 0 THEN Append(cache, entry) ELSE [cache EXCEPT ![i] = entry]

\* a name or an object identity that is not in use yet
Fresh(used) == IF used = {} THEN 1 ELSE 1 + (CHOOSE m \in used : \A u \in used : u <= m)

\* the body of the loop of Executor._preprocess for the input file details at
\* ifd_index that have a coverage vector: the clone takes their place, a
\* temporary directory is made and recorded, the clone gets one band per band
\* of the original, and PinkChartProcessor.process writes the rasters (ok) or
\* raises. A file is the directory it is in (0: where the caller keeps its
\* inputs) and its name; the re-written rasters keep the names of the
\* originals. The coverage vector is taken to cover the whole raster: the
\* re-written rasters hold the cells and the size of the originals, and the
\* mask raster, a band without a nodata value, is added as the pinkChart band
RasterFile(dir, name) == [dir |-> dir, name |-> name]

PreprocessOne(e, dirs, ifd_index, ok) ==
    LET ifd == e.input_file_details[ifd_index]
        oids == {e.input_file_details[i].oid : i \in 1..Len(e.input_file_details)}
                \cup {e.source_input_file_details[i].oid :
                         i \in 1..Len(e.source_input_file_details)}
        temp_dir == Fresh(dirs \cup {e.temp_dirs[i] : i \in 1..Len(e.temp_dirs)})
        cloned == clone(ifd, Fresh(oids))
        banded == [cloned EXCEPT
                      !.input_band_details =
                          @ \o [k \in 1..Len(ifd.input_band_details) |->
                                   [ifd.input_band_details[k] EXCEPT
                                       !.input_file = RasterFile(temp_dir, @.name)]],
                      !.bands = [b \in BandTypes |->
                                    IF b = "pinkChart" THEN cloned.bands[b]
                                    ELSE ifd.bands[b]]]
        processed_ifd == IF ok
                         THEN [add_band_details(banded,
                                                RasterFile(temp_dir, "pinkchart"),
                                                1, "pinkChart")
                                  EXCEPT !.bands["pinkChart"] =
                                             [present |-> TRUE, nodata |-> FALSE]]
                         ELSE banded
    IN  [raised |-> ~ok,
         error |-> IF ok THEN "None" ELSE "PinkChartProcessor.process",
         dirs |-> dirs \cup {temp_dir},
         exe |-> [e EXCEPT !.input_file_details[ifd_index] = processed_ifd,
                           !.temp_dirs = Append(@, temp_dir)]]

RECURSIVE PreprocessFrom(_, _, _, _)
\* the loop of Executor._preprocess from ifd_index on; input file details
\* without a coverage vector are skipped, an exception ends the loop
PreprocessFrom(e, dirs, ifd_index, ok) ==
    IF ifd_index > Len(e.input_file_details)
    THEN [raised |-> FALSE, error |-> "None", dirs |-> dirs, exe |-> e]
    ELSE IF e.input_file_details[ifd_index].pink_chart_filename = "None"
    THEN PreprocessFrom(e, dirs, ifd_index + 1, ok)
    ELSE LET one == PreprocessOne(e, dirs, ifd_index, ok)
         IN  IF one.raised THEN one
             ELSE PreprocessFrom(one.exe, one.dirs, ifd_index + 1, ok)

\* Executor._preprocess: the snapshot of the list, then the loop
_preprocess(e, dirs, ok) ==
    PreprocessFrom([e EXCEPT !.source_input_file_details = e.input_file_details],
                   dirs, 1, ok)

\* whether PinkChartProcessor.process may raise: it reads and writes files,
\* so it may whenever there is a coverage vector to process
ProcessOutcomes(e) ==
    IF \E i \in 1..Len(e.input_file_details) :
          e.input_file_details[i].pink_chart_filename # "None"
    THEN BOOLEAN ELSE {TRUE}

\* is_stopped(): None is never polled; a callable answers as its owner likes,
\* and when the stop was requested before run was called it answers true
Polls(is_stopped) ==
    IF is_stopped = "None" THEN {FALSE}
    ELSE IF is_stopped = "stopped" THEN {TRUE}
    ELSE BOOLEAN

\* Executor.__update_progress: the value goes to the progress callback, here
\* to the caller's record of what it was told; without a callback nothing
__update_progress(caller, progress) ==
    IF caller.progress_callback = "None" THEN caller
    ELSE [caller EXCEPT !.progress = Append(@, progress)]

\* Executor.__update_tile_progress: the progress of one tile placed between
\* _tile_start_progress and _tile_end_progress
__update_tile_progress(caller, _tile_start_progress, _tile_end_progress, progress) ==
    IF caller.progress_callback = "None" THEN caller
    ELSE LET delta_prog == Minus(_tile_end_progress, _tile_start_progress)
             adjusted_prog == Plus(Times(delta_prog, progress), _tile_start_progress)
         IN  [caller EXCEPT !.progress = Append(@, adjusted_prog)]

\* the number of tiles of all input files together
total_file_and_tile_count(files_and_tiles) ==
    SumOver([i \in 1..Len(files_and_tiles) |-> Len(files_and_tiles[i])],
            1..Len(files_and_tiles))

\* 0.05 + processed_tile_count / total_file_and_tile_count * 0.95: where the
\* tile after processed_tile_count tiles starts, and the one before it ends
TileProgress(processed_tile_count, total) ==
    Plus(Rational(1, 20), Times(Rational(processed_tile_count, total), Rational(19, 20)))

\* what the try block of _run_checks saw of check.run: whether it raised, and
\* the text of the exception
NoRun == [check_id |-> "None", raised |-> FALSE, error |-> "None"]
RunOutcome(check_id, ran) ==
    [check_id |-> check_id, raised |-> ran.raised, error |-> ran.error]

\* Executor.run up to its tile loop: report 0, preprocess, report 0.05, clear
\* the cache and list the tiles of every input file. An exception of
\* preprocessing leaves run
RunStart ==
    /\ pc = "start"
    /\ \E ok \in ProcessOutcomes(exe) :
          LET pre == _preprocess(exe, env.dirs, ok)
              e == pre.exe
              began == [__update_progress(env, Rational(0, 1)) EXCEPT
                           !.dirs = pre.dirs, !.runs = @ + 1]
          IN  /\ env' = IF pre.raised THEN began
                        ELSE __update_progress(began, Rational(1, 20))
              /\ IF pre.raised
                 THEN /\ exe' = e
                      /\ pc' = "raised"
                      /\ ret' = [where |-> "_preprocess", error |-> pre.error]
                      /\ UNCHANGED loop
                 ELSE /\ exe' = [e EXCEPT !.check_result_cache = <<>>]
                      /\ loop' = [files_and_tiles |->
                                     [i \in 1..Len(e.input_file_details) |->
                                         get_tiles(0, 0, e.input_file_details[i].size_x,
                                                   e.input_file_details[i].size_y,
                                                   e.tile_size_x, e.tile_size_y)],
                                  ifd_i |-> 1, tile_i |-> 1, check_i |-> 0,
                                  processed_tile_count |-> 0, now |-> 1,
                                  last_run |-> NoRun, stopped |-> FALSE]
                      /\ pc' = "tile"
                      /\ UNCHANGED ret
    /\ UNCHANGED <<call, outputs>>

\* the head of the tile loop: run returns after the last tile of the last
\* input file or when the poll of is_stopped answers true; otherwise the
\* start of the tile is reported, the tile is loaded and 20% of it reported
NextTile ==
    /\ pc = "tile"
    /\ IF loop.ifd_i > Len(loop.files_and_tiles)
       THEN pc' = "returned" /\ UNCHANGED <<loop, env>>
       ELSE IF loop.tile_i > Len(loop.files_and_tiles[loop.ifd_i])
       THEN /\ loop' = [loop EXCEPT !.ifd_i = @ + 1, !.tile_i = 1]
            /\ UNCHANGED <<pc, env>>
       ELSE \E stop \in Polls(env.is_stopped) :
               LET total == total_file_and_tile_count(loop.files_and_tiles)
                   start == TileProgress(loop.processed_tile_count, total)
                   end == TileProgress(loop.processed_tile_count + 1, total)
                   at_start == __update_tile_progress(env, start, end, Rational(0, 1))
               IN  IF stop
                   THEN /\ loop' = [loop EXCEPT !.stopped = TRUE]
                        /\ pc' = "returned"
                        /\ UNCHANGED env
                   ELSE /\ loop' = [loop EXCEPT !.check_i = 1]
                        /\ pc' = "checks"
                        /\ env' = __update_tile_progress(at_start, start, end,
                                                         Rational(1, 5))
    /\ UNCHANGED <<call, ret, exe, outputs>>

CurrentIfd == exe.input_file_details[loop.ifd_i]

CurrentTile == loop.files_and_tiles[loop.ifd_i][loop.tile_i]

\* one pass of the loop of Executor._run_checks, lines 199-251, for the check
\* at check_i: the check is created, started, run and ended, then merged with
\* the entry the cache holds for it and stored, and the share of the tile's
\* checks done so far is reported. An exception that leaves Executor.run is
\* kept in ret; last_run is what check.run did (returned, or raised and with
\* which text)
RunCheck ==
    /\ pc = "checks"
    /\ loop.check_i <= Len(CurrentIfd.check_ids_and_params)
    /\ \E stop \in Polls(env.is_stopped) :
       LET ifd == CurrentIfd
           tile == CurrentTile
           cp == ifd.check_ids_and_params[loop.check_i]
           check_class == get_check(cp.check_id, exe.checks)
           made == NewCheck(check_class, cp.params)
           c0 == [made.check EXCEPT
                    !.spatial_export = exe.spatial_export,
                    !.spatial_export_location = exe.spatial_export_location,
                    !.spatial_qajson = exe.spatial_qajson]
           c1 == check_started(c0, loop.now)
           ran == Run(c1, ifd, tile, _load_data(ifd, tile))
           c2 == IF ran.raised
                 THEN [ran.check EXCEPT !.execution_status = "failed",
                                        !.error_message = ran.error]
                 ELSE check_ended(ran.check, loop.now + 1)
           src_ifd == IF ifd.source # 0 THEN ifd.source ELSE ifd.oid
           at == CacheIndex(exe.check_result_cache, src_ifd, cp.check_id)
           merged == IF at = 0 THEN Ok(c2)
                     ELSE merge_results(c2, exe.check_result_cache[at].check)
           known == {k \in 1..Len(ifd.check_ids_and_params) :
                        get_check(ifd.check_ids_and_params[k].check_id, exe.checks) # "None"}
           total_check_count == Cardinality(known)
           checks_done == Cardinality({k \in known : k <= loop.check_i})
           total == total_file_and_tile_count(loop.files_and_tiles)
       IN  IF stop
           THEN /\ loop' = [loop EXCEPT !.stopped = TRUE,
                                        !.check_i = Len(ifd.check_ids_and_params) + 1]
                /\ UNCHANGED <<pc, exe, ret, env>>
           ELSE IF check_class = "None"
           THEN /\ loop' = [loop EXCEPT !.check_i = @ + 1]
                /\ UNCHANGED <<pc, exe, ret, env>>
           ELSE IF made.raised
           THEN /\ pc' = "raised"
                /\ ret' = [where |-> "__init__", error |-> made.error]
                /\ UNCHANGED <<exe, loop, env>>
           ELSE IF merged.raised
           THEN /\ pc' = "raised"
                /\ ret' = [where |-> "merge_results", error |-> merged.error]
                /\ loop' = [loop EXCEPT !.last_run = RunOutcome(cp.check_id, ran)]
                /\ UNCHANGED <<exe, env>>
           ELSE /\ exe' = [exe EXCEPT !.check_result_cache =
                              CachePut(@, src_ifd, cp.check_id, merged.check)]
                /\ loop' = [loop EXCEPT !.check_i = @ + 1, !.now = @ + 2,
                                        !.last_run = RunOutcome(cp.check_id, ran)]
                /\ env' = __update_tile_progress(
                              env,
                              TileProgress(loop.processed_tile_count, total),
                              TileProgress(loop.processed_tile_count + 1, total),
                              Plus(Rational(1, 5),
                                   Times(Rational(checks_done, total_check_count),
                                         Rational(4, 5))))
                /\ UNCHANGED <<pc, ret>>
    /\ UNCHANGED <<call, outputs>>

\* _run_checks returns after the last check: the tile is counted as processed
\* and its end is reported
EndTile ==
    /\ pc = "checks"
    /\ loop.check_i > Len(CurrentIfd.check_ids_and_params)
    /\ loop' = [loop EXCEPT !.tile_i = @ + 1, !.check_i = 0,
                            !.processed_tile_count = @ + 1]
    /\ env' = __update_progress(
                  env, TileProgress(loop.processed_tile_count + 1,
                                    total_file_and_tile_count(loop.files_and_tiles)))
    /\ pc' = "tile"
    /\ UNCHANGED <<call, ret, exe, outputs>>

\* the caller's loop over check_result_cache once run has returned
\* (plugin.py 357-358, cli.py 101-104): get_outputs of every cached check, in
\* the order of the cache, up to the first one that raises
CollectOutputs ==
    /\ pc = "returned"
    /\ LET cache == exe.check_result_cache
           outs == [i \in 1..Len(cache) |-> get_outputs(cache[i].check)]
           bad == {i \in 1..Len(cache) : outs[i].raised}
           n == IF bad = {} THEN Len(cache) ELSE CHOOSE i \in bad : \A j \in bad : i <= j
       IN  /\ outputs' = [i \in 1..n |-> outs[i]]
           /\ pc' = IF bad = {} THEN "reported" ELSE "report_raised"
    /\ UNCHANGED <<call, ret, exe, loop, env>>

Next == RunStart \/ NextTile \/ RunCheck \/ EndTile \/ CollectOutputs

\* the caller calls run again on the same Executor, with a new record of the
\* progress it is told
RunAgain ==
    /\ pc \in {"returned", "reported"}
    /\ env.runs < MaxRuns
    /\ pc' = "start"
    /\ loop' = Idle
    /\ outputs' = <<>>
    /\ env' = [env EXCEPT !.progress = <<>>]
    /\ UNCHANGED <<call, ret, exe>>

\* the caller lets go of the Executor after run has returned or raised: the
\* class has no __del__ and no method that removes a directory, so nothing
\* on disk and nothing in temp_dirs changes
Teardown ==
    /\ pc \in {"returned", "reported", "report_raised", "raised"}
    /\ pc' = "torn_down"
    /\ UNCHANGED <<call, ret, exe, loop, outputs, env>>

\* QaxPlugin.run once Executor.run has returned (plugin.py 357-366): the
\* outputs of the first cached check are built and assigned to
\* ifd.qajson_check, an attribute InputFileDetails does not have; only with
\* an empty cache is the loop left normally and qajson_update_callback, when
\* given, called. The plugin hands run a wrapper of its progress callback
PluginAfterRun ==
    /\ pc = "returned"
    /\ env.progress_callback # "None"
    /\ IF exe.check_result_cache = <<>>
       THEN /\ env' = [env EXCEPT !.qajson_updates =
                          IF env.qajson_update_callback = "None" THEN @ ELSE @ + 1]
            /\ pc' = "plugin_returned"
            /\ UNCHANGED ret
       ELSE LET check_outputs == get_outputs(exe.check_result_cache[1].check)
            IN  /\ ret' = [where |-> "QaxPlugin.run",
                           error |-> IF check_outputs.raised THEN check_outputs.error
                                     ELSE "AttributeError"]
                /\ pc' = "plugin_raised"
                /\ UNCHANGED env
    /\ UNCHANGED <<call, exe, loop, outputs>>

NextLife ==
    \/ RunStart \/ NextTile \/ RunCheck \/ EndTile \/ CollectOutputs
    \/ PluginAfterRun \/ RunAgain \/ Teardown

\* ------------------------------------------------- specification: Executor

\* the cells a raster is made of: (depth, density, uncertainty) values scaled
\* to integers, NoDataValue where the band has no data
CellKinds ==
    { [depth |-> NoDataValue, density |-> NoDataValue, uncertainty |-> NoDataValue,
       pinkChart |-> 0],
      [depth |-> -2, density |-> 1, uncertainty |-> -3, pinkChart |-> 0],
      [depth |-> -5, density |-> 3, uncertainty |-> 1, pinkChart |-> 0] }

Band(present, nodata) == [present |-> present, nodata |-> nodata]

\* which bands an input has and whether each declares a nodata value
BandConfigs ==
    LET all == [b \in BandTypes |-> Band(b # "pinkChart", b # "pinkChart")]
    IN  { all,
          [all EXCEPT !["density"] = Band(FALSE, FALSE)],
          [all EXCEPT !["depth"] = Band(FALSE, FALSE)],
          [all EXCEPT !["uncertainty"] = Band(FALSE, FALSE)],
          [all EXCEPT !["depth"] = Band(FALSE, FALSE), !["uncertainty"] = Band(FALSE, FALSE)],
          [all EXCEPT !["density"] = Band(TRUE, FALSE)],
          [all EXCEPT !["depth"] = Band(TRUE, FALSE), !["uncertainty"] = Band(TRUE, FALSE)] }

Param(name, value) == [name |-> name, value |-> value]

\* the parameters of the QA-JSON checks, scaled to integers
DensityInput ==
    <<Param("Minimum Soundings per node", 2),
      Param("Minimum Soundings per node percentage", 95)>>
TvuInput ==
    <<Param("Constant Depth Error", 1),
      Param("Factor of Depth Dependent Errors", 1)>>
ResolutionInput ==
    <<Param("Feature Detection Size Multiplier", 1),
      Param("Threshold Depth", 4),
      Param("Above Threshold FDS Depth Multiplier", 0),
      Param("Above Threshold FDS Depth Constant", 2),
      Param("Below Threshold FDS Depth Multiplier", 1),
      Param("Below Threshold FDS Depth Constant", 0)>>

CheckAndParams(check_id, params) == [check_id |-> check_id, params |-> params]

\* the check lists an input file may carry: the three checks with their
\* parameters, or with no parameters and a check this tool does not implement
CheckLists ==
    { <<CheckAndParams(DensityId, DensityInput),
        CheckAndParams(TvuId, TvuInput),
        CheckAndParams(ResolutionId, ResolutionInput)>>,
      <<CheckAndParams(DensityId, <<>>),
        CheckAndParams("00000000-unknown", <<>>),
        CheckAndParams(TvuId, <<>>),
        CheckAndParams(ResolutionId, <<>>)>> }

Shapes == {s \in (1..MaxCells) \X (1..MaxCells) : s[1] * s[2] <= MaxCells}

\* the band details of single band rasters, one file per band that is given
SingleBandFiles(bands) ==
    LET types == SelectSeq(<<"depth", "density", "uncertainty">>,
                           LAMBDA b : bands[b].present)
    IN  [k \in 1..Len(types) |->
            [input_file |-> RasterFile(0, types[k]), band_index |-> 1,
             band_type |-> types[k]]]

\* InputFileDetails.__init__ filled in by the input resolver; oid is the
\* identity of the object, source = 0 is None, the pixel size is 3
InputFileDetails(oid, shape, data, bands, checks) ==
    [oid |-> oid,
     size_x |-> shape[1],
     size_y |-> shape[2],
     geotransform |-> <<0, 3, 0, 0, 0, -3>>,
     input_band_details |-> SingleBandFiles(bands),
     bands |-> bands,
     data |-> data,
     pink_chart_filename |-> "None",
     check_ids_and_params |-> checks,
     source |-> 0]

\* the settings of an Executor nobody has changed: the defaults of __init__
SpatialConfigs ==
    { [spatial_export |-> FALSE, spatial_export_location |-> FALSE, spatial_qajson |-> TRUE] }

\* run has not been called, no temporary directory exists, and the callbacks
\* and is_stopped are what the caller will hand to run; progress is what the
\* progress callback has been told during the run, qajson_updates how often
\* qajson_update_callback has been called
Caller(progress_callback, qajson_update_callback, is_stopped) ==
    [progress_callback |-> progress_callback,
     qajson_update_callback |-> qajson_update_callback,
     is_stopped |-> is_stopped,
     dirs |-> {}, runs |-> 0, progress |-> <<>>, qajson_updates |-> 0]

Init ==
    /\ pc = "start"
    /\ call = Idle
    /\ ret = <<>>
    /\ outputs = <<>>
    /\ loop = Idle
    /\ env = Caller("None", "None", "None")
    /\ \E shape \in Shapes, bands \in BandConfigs, checks \in CheckLists,
          spatial \in SpatialConfigs :
       \E data \in [TileCells(Tile(0, 0, shape[1], shape[2])) -> CellKinds],
          tx \in 1..Min2(shape[1], MaxTile), ty \in 1..Min2(shape[2], MaxTile) :
          exe = Executor(<<InputFileDetails(1, shape, data, bands, checks)>>, tx, ty, spatial)

Spec == Init /\ [][Next]_vars

\* ------------------------------------- specification: Executor life cycle

\* a raster of the life cycle runs has at most MaxLifeCells cells
MaxLifeCells == 2

LifeShapes == {s \in (1..MaxLifeCells) \X (1..MaxLifeCells) : s[1] * s[2] <= MaxLifeCells}

\* all bands given with a nodata value, or the density band without one
LifeBandConfigs ==
    LET all == [b \in BandTypes |-> Band(b # "pinkChart", b # "pinkChart")]
    IN  {all, [all EXCEPT !["density"] = Band(TRUE, FALSE)]}

\* the parameters of a second density check of the same QA-JSON
DensityInput2 ==
    <<Param("Minimum Soundings per node", 3),
      Param("Minimum Soundings per node percentage", 50)>>

\* the three checks once each, or two density checks over the same files
\* (test_executor.py check01_str, check02_str) followed by a TVU check
LifeCheckLists ==
    { <<CheckAndParams(DensityId, DensityInput),
        CheckAndParams(TvuId, TvuInput),
        CheckAndParams(ResolutionId, ResolutionInput)>>,
      <<CheckAndParams(DensityId, DensityInput),
        CheckAndParams(DensityId, DensityInput2),
        CheckAndParams(TvuId, TvuInput)>> }

\* the defaults, or what the plugin sets when QAX asks for exported files too
LifeSpatialConfigs ==
    SpatialConfigs \cup
    { [spatial_export |-> TRUE, spatial_export_location |-> TRUE, spatial_qajson |-> TRUE] }

\* the input file details with a coverage vector given
WithPinkChart(ifd, given) ==
    IF given THEN [ifd EXCEPT !.pink_chart_filename = "coverage.shp"] ELSE ifd

InitLife ==
    /\ pc = "start"
    /\ call = Idle
    /\ ret = <<>>
    /\ outputs = <<>>
    /\ loop = Idle
    /\ \E callback \in {"None", "callable"}, is_stopped \in {"None", "callable", "stopped"} :
          env = Caller(callback, callback, is_stopped)
    /\ \/ \E spatial \in SpatialConfigs : exe = Executor(<<>>, 1, 1, spatial)
       \/ \E shape \in LifeShapes, bands \in LifeBandConfigs, checks \in LifeCheckLists,
             spatial \in LifeSpatialConfigs, coverage \in BOOLEAN :
          \E data \in [TileCells(Tile(0, 0, shape[1], shape[2])) -> CellKinds],
             tx \in 1..Min2(shape[1], MaxTile), ty \in 1..Min2(shape[2], MaxTile) :
             exe = Executor(<<WithPinkChart(InputFileDetails(1, shape, data, bands, checks),
                                            coverage)>>,
                            tx, ty, spatial)

SpecLife == InitLife /\ [][NextLife]_vars

\* ------------------------------------------------ properties of the run

Cache == exe.check_result_cache

\* the input file details a cache entry is keyed on
SourceIfd(entry) ==
    CHOOSE ifd \in {exe.source_input_file_details[i] :
                       i \in 1..Len(exe.source_input_file_details)} :
        ifd.oid = entry.ifd

WholeRaster(ifd) == Tile(0, 0, ifd.size_x, ifd.size_y)

\* the band whose non-masked cells a check counts
RelevantBand(check_id) ==
    IF check_id = DensityId THEN "density"
    ELSE IF check_id = TvuId THEN "uncertainty"
    ELSE "depth"

\* the bands a check cannot run without
RequiredBands(check_id) ==
    IF check_id = DensityId THEN {"density"}
    ELSE IF check_id = TvuId THEN {"depth", "uncertainty"}
    ELSE {"depth"}

\* every required band is given and declares a nodata value
BandsUsable(ifd, check_id) ==
    \A b \in RequiredBands(check_id) : ifd.bands[b].present /\ ifd.bands[b].nodata

NonMaskedCells(ifd, band_type) ==
    Cardinality({c \in TileCells(WholeRaster(ifd)) : ifd.data[c][band_type] # NoDataValue})

TileCount == Len(loop.files_and_tiles[1])

\* C2: after an uncancelled run over an input whose required bands are
\* present (and masked by a nodata value), the cached check of every class
\* that completed holds as total_cell_count the number of non-masked cells of
\* its relevant band over the whole raster, whatever the tile sizes.
C2_TotalCellCount ==
    pc = "returned" =>
        \A i \in 1..Len(Cache) :
            (/\ BandsUsable(SourceIfd(Cache[i]), Cache[i].check_id)
             /\ Cache[i].check.execution_status = "completed")
            => /\ "total_cell_count" \in Cache[i].check.attrs
               /\ Cache[i].check.total_cell_count =
                     NonMaskedCells(SourceIfd(Cache[i]), RelevantBand(Cache[i].check_id))

\* C4: once all tiles are merged, the total_soundings that DensityCheck's
\* get_outputs reports equals the sum of the histogram and the check's
\* total_cell_count.
C4_DensityTotals ==
    pc \in {"reported", "report_raised"} =>
        \A i \in 1..Len(outputs) :
            (/\ Cache[i].check_id = DensityId
             /\ ~outputs[i].raised
             /\ "summary" \in outputs[i].data.keys)
            => /\ outputs[i].data.total_soundings =
                     SumOver(Cache[i].check.density_histogram,
                             DOMAIN Cache[i].check.density_histogram)
               /\ outputs[i].data.total_soundings = Cache[i].check.total_cell_count

\* C6: TvuCheck.get_outputs and ResolutionCheck.get_outputs report pass if and
\* only if failed_cell_count = 0 and the status is completed; a failed or
\* aborted check never reports pass.
C6_PassIffCompletedClean ==
    pc \in {"reported", "report_raised"} =>
        \A i \in 1..Len(outputs) :
            (Cache[i].check_id \in {TvuId, ResolutionId} /\ ~outputs[i].raised)
            => ((outputs[i].check_state = "pass")
                  <=> (/\ Cache[i].check.failed_cell_count = 0
                       /\ Cache[i].check.execution_status = "completed"))

\* C7: the failed_cell_count that TvuCheck accumulates by running per tile and
\* merging equals, for every tile partition, the count that one run over the
\* whole raster as a single tile gives.
C7_TvuPartitionInvariant ==
    pc = "returned" =>
        \A i \in 1..Len(Cache) :
            Cache[i].check_id = TvuId =>
                LET ifd == SourceIfd(Cache[i])
                    fresh == [NewCheck(TvuId, Cache[i].check.input_params).check EXCEPT
                                 !.spatial_export = exe.spatial_export,
                                 !.spatial_export_location = exe.spatial_export_location,
                                 !.spatial_qajson = exe.spatial_qajson]
                    whole == TvuRun(fresh, ifd, WholeRaster(ifd),
                                    _load_data(ifd, WholeRaster(ifd)))
                IN  Cache[i].check.failed_cell_count = whole.check.failed_cell_count

\* a completed TVU check merged from several tiles, with failing cells in
\* more than one of them
C7_Witness ==
    /\ pc = "returned"
    /\ TileCount > 1
    /\ \E i \in 1..Len(Cache) :
          /\ Cache[i].check_id = TvuId
          /\ Cache[i].check.execution_status = "completed"
          /\ Cache[i].check.failed_cell_count > 1
          /\ Cache[i].check.failed_cell_count < Cache[i].check.total_cell_count

\* C8: a TvuCheck or ResolutionCheck always has
\* 0 <= failed_cell_count <= total_cell_count, and get_outputs on a completed
\* check emits a defined fraction_failed between 0 and 1, rasters of nothing
\* but nodata included.
C8_FractionFailedDefined ==
    \A i \in 1..Len(Cache) :
        Cache[i].check_id \in {TvuId, ResolutionId} =>
            LET check == Cache[i].check
                out == get_outputs(check)
            IN  /\ 0 <= check.failed_cell_count
                /\ check.failed_cell_count <= check.total_cell_count
                /\ check.execution_status = "completed" =>
                      /\ ~out.raised
                      /\ "fraction_failed" \in out.data.keys
                      /\ out.data.fraction_failed[2] > 0
                      /\ 0 <= out.data.fraction_failed[1]
                      /\ out.data.fraction_failed[1] <= out.data.fraction_failed[2]

\* the message a check gives when the bands it needs are missing
MissingMessage(ifd, check_id) ==
    IF check_id = DensityId THEN "Missing density data"
    ELSE IF check_id = ResolutionId THEN "Missing depth data"
    ELSE IF ~ifd.bands["depth"].present /\ ~ifd.bands["uncertainty"].present
    THEN "Missing depth and uncertainty data"
    ELSE IF ~ifd.bands["depth"].present THEN "Missing depth data"
    ELSE "Missing uncertainty data"

BandMissing(ifd, check_id) == \E b \in RequiredBands(check_id) : ~ifd.bands[b].present

KnownChecks(ifd) ==
    {ifd.check_ids_and_params[k].check_id : k \in 1..Len(ifd.check_ids_and_params)}
        \cap all_checks

\* C9: a check whose required band is absent ends aborted with its specific
\* message, get_outputs reports fail (for TvuCheck and ResolutionCheck with the
\* error as the only message), and the run is not stopped by it: the other
\* checks of the input are run on every tile and none of them is aborted.
C9_MissingBandAborts ==
    /\ \A i \in 1..Len(Cache) :
          LET ifd == SourceIfd(Cache[i])
              check == Cache[i].check
          IN  IF BandMissing(ifd, Cache[i].check_id)
              THEN /\ check.execution_status = "aborted"
                   /\ check.error_message = MissingMessage(ifd, Cache[i].check_id)
                   /\ ~get_outputs(check).raised
                   /\ get_outputs(check).check_state = "fail"
                   /\ Cache[i].check_id # DensityId =>
                         get_outputs(check).messages = <<check.error_message>>
              ELSE check.execution_status # "aborted"
    /\ (pc = "checks" /\ \E id \in all_checks : BandMissing(CurrentIfd, id)) =>
          \A k \in 1..(loop.check_i - 1) :
              CurrentIfd.check_ids_and_params[k].check_id \in all_checks =>
                  \E i \in 1..Len(Cache) :
                      /\ Cache[i].check_id = CurrentIfd.check_ids_and_params[k].check_id
                      /\ Cache[i].check.end_time # NoTime
                            \/ Cache[i].check.execution_status = "failed"
                      /\ Cache[i].check.start_time > 0

\* an input without a depth band: the TVU check is aborted and cached, and the
\* density check of the same tile has completed
C9_Witness ==
    /\ pc = "returned"
    /\ \E i, j \in 1..Len(Cache) :
          /\ Cache[i].check_id = TvuId
          /\ Cache[i].check.execution_status = "aborted"
          /\ Cache[i].check.error_message = "Missing depth data"
          /\ Cache[j].check_id = DensityId
          /\ Cache[j].check.execution_status = "completed"
          /\ Cache[j].check.total_cell_count > 0

\* C10: when check.run raises on a tile the Executor catches it, the instance
\* gets the status failed and the exception text as its error message, and
\* Executor.run carries on (the merge with the other tiles included) and
\* never raises because of it.
C10_RunFailureContained ==
    /\ (pc = "raised" /\ ret.where = "merge_results") => ~loop.last_run.raised
    /\ (pc = "checks" /\ loop.last_run.raised) =>
          \E i \in 1..Len(Cache) :
              /\ Cache[i].check_id = loop.last_run.check_id
              /\ Cache[i].check.execution_status = "failed"
              /\ Cache[i].check.error_message = loop.last_run.error

\* ------------------------------------------------ specification: merging

\* the soundings per node of a per-tile histogram and the nodes of a tile
MaxSoundings == 2
MaxNodes == 2

\* the accumulated state of a check: what merge_results adds up
Acc(check) ==
    IF check.id = DensityId
    THEN [density_histogram |-> check.density_histogram]
    ELSE [total_cell_count |-> check.total_cell_count,
          failed_cell_count |-> check.failed_cell_count]

\* DensityCheck([]) with the histogram of one tile assigned to it
WithHistogram(h) ==
    [NewCheck(DensityId, <<>>).check EXCEPT
        !.density_histogram = h, !.attrs = @ \cup {"density_histogram"}]

\* TvuCheck([]) or ResolutionCheck([]) with the counts of one tile assigned
WithCounts(id, total, failed) ==
    [NewCheck(id, <<>>).check EXCEPT
        !.total_cell_count = total, !.failed_cell_count = failed]

MergeExampleA == (0 :> 3) @@ (1 :> 5) @@ (2 :> 7) @@ (5 :> 8) @@ (10 :> 1)
MergeExampleB == (0 :> 1) @@ (2 :> 3) @@ (4 :> 2) @@ (5 :> 3) @@ (9 :> 1)
MergeExampleSum ==
    (0 :> 4) @@ (1 :> 5) @@ (2 :> 10) @@ (4 :> 2) @@ (5 :> 11) @@ (9 :> 1) @@ (10 :> 1)

\* the histograms a tile of at most MaxNodes nodes can give
TileHists ==
    {h \in UNION {[K -> 1..MaxNodes] : K \in SUBSET (0..MaxSoundings)} :
        SumOver(h, DOMAIN h) <= MaxNodes}

TileResults ==
    {WithHistogram(h) : h \in TileHists \cup {MergeExampleA, MergeExampleB}}
    \cup {WithCounts(id, total, failed) :
            id \in {TvuId, ResolutionId},
            total \in 0..MaxNodes, failed \in 0..MaxNodes}

InitMerge ==
    /\ pc = "merge"
    /\ call \in {c \in [a : TileResults, b : TileResults, c : TileResults] :
                    /\ c.a.id = c.b.id /\ c.b.id = c.c.id
                    /\ \A r \in {c.a, c.b, c.c} : r.failed_cell_count <= r.total_cell_count}
    /\ ret = <<>>
    /\ exe = Idle
    /\ loop = Idle
    /\ outputs = Idle
    /\ env = Idle

\* x.merge_results(y), and x as the call leaves it
Merged(x, y) == merge_results(x, y).check

\* the three results of one check merged pairwise in both orders, and folded
\* in every order and grouping
CallMerge ==
    /\ pc = "merge"
    /\ pc' = "merged"
    /\ LET three == <<call.a, call.b, call.c>>
           perms == {s \in [1..3 -> 1..3] : {s[1], s[2], s[3]} = 1..3}
       IN  ret' = [raised |-> merge_results(call.a, call.b).raised
                                \/ merge_results(call.b, call.a).raised,
                   ab |-> Acc(Merged(call.a, call.b)),
                   ba |-> Acc(Merged(call.b, call.a)),
                   folds |-> {Acc(Merged(Merged(three[s[1]], three[s[2]]), three[s[3]])) :
                                 s \in perms}
                             \cup
                             {Acc(Merged(three[s[1]], Merged(three[s[2]], three[s[3]]))) :
                                 s \in perms}]
    /\ UNCHANGED <<call, exe, loop, outputs, env>>

NextMerge == CallMerge

SpecMerge == InitMerge /\ [][NextMerge]_vars

\* the key-wise sum of two histograms
KeywiseSum(h1, h2) ==
    [k \in DOMAIN h1 \cup DOMAIN h2 |->
        (IF k \in DOMAIN h1 THEN h1[k] ELSE 0) + (IF k \in DOMAIN h2 THEN h2[k] ELSE 0)]

\* C3: merge_results is commutative and associative over the accumulated
\* state: the merged density histogram is the key-wise sum of the two
\* histograms whichever instance absorbs the other (the example pair gives
\* {0:4,1:5,2:10,4:2,5:11,9:1,10:1}), the merged counts of TvuCheck and
\* ResolutionCheck are the integer sums, and the three results folded in any
\* order and grouping give one and the same accumulated state.
C3_MergeCommutativeAssociative ==
    pc = "merged" =>
        /\ ~ret.raised
        /\ ret.ab = ret.ba
        /\ IF call.a.id = DensityId
           THEN /\ ret.ab.density_histogram =
                      KeywiseSum(call.a.density_histogram, call.b.density_histogram)
                /\ ret.folds =
                      {[density_histogram |->
                          KeywiseSum(KeywiseSum(call.a.density_histogram,
                                                call.b.density_histogram),
                                     call.c.density_histogram)]}
                /\ (/\ call.a.density_histogram = MergeExampleA
                    /\ call.b.density_histogram = MergeExampleB)
                   => ret.ab.density_histogram = MergeExampleSum
           ELSE /\ ret.ab.total_cell_count =
                      call.a.total_cell_count + call.b.total_cell_count
                /\ ret.ab.failed_cell_count =
                      call.a.failed_cell_count + call.b.failed_cell_count
                /\ ret.folds =
                      {[total_cell_count |-> call.a.total_cell_count
                            + call.b.total_cell_count + call.c.total_cell_count,
                        failed_cell_count |-> call.a.failed_cell_count
                            + call.b.failed_cell_count + call.c.failed_cell_count]}

\* the example pair merged, with a third histogram that shares a bucket with
\* both
C3_Witness ==
    /\ pc = "merged"
    /\ call.a.density_histogram = MergeExampleA
    /\ call.b.density_histogram = MergeExampleB
    /\ call.c.density_histogram = (0 :> 1) @@ (2 :> 1)
    /\ ret.ab.density_histogram = MergeExampleSum

\* --------------------------------------- specification: density outputs

\* the histogram of test_density_threshold: 17 nodes, two of them with fewer
\* than five soundings
ThresholdExample == (1 :> 1) @@ (2 :> 1) @@ (9 :> 2) @@ (10 :> 13)

\* the required percentages: for these Python's float evaluation of
\* (1.0 - under / total) * 100.0 < percentage agrees with the exact
\* comparison kept here
Percentages == {0, 50, 95, 100}

MinSoundings == (0..(MaxSoundings + 1)) \cup {5}

InitDensityOutputs ==
    /\ pc = "get_outputs"
    /\ \E h \in TileHists \cup {ThresholdExample}, min_spn \in MinSoundings,
          min_spn_p \in Percentages :
          call = [NewCheck(DensityId,
                           <<Param("Minimum Soundings per node", min_spn),
                             Param("Minimum Soundings per node percentage", min_spn_p)>>).check
                     EXCEPT !.density_histogram = h,
                            !.attrs = @ \cup {"density_histogram"},
                            !.execution_status = "completed"]
    /\ ret = <<>>
    /\ exe = Idle
    /\ loop = Idle
    /\ outputs = Idle
    /\ env = Idle

CallGetOutputs ==
    /\ pc = "get_outputs"
    /\ pc' = "got_outputs"
    /\ ret' = get_outputs(call)
    /\ UNCHANGED <<call, exe, loop, outputs, env>>

NextDensityOutputs == CallGetOutputs

SpecDensityOutputs == InitDensityOutputs /\ [][NextDensityOutputs]_vars

C11_StopEndsWork ==
    [][(pc \in {"tile", "checks"} /\ loop.stopped) =>
          /\ exe'.check_result_cache = exe.check_result_cache
          /\ ~(pc = "tile" /\ pc' = "checks")
          /\ pc' \in {"tile", "checks"} => loop'.now = loop.now]_vars

\* a run that went on after a poll had answered true: a check was run later
C11_Witness ==
    /\ pc = "checks"
    /\ loop.stopped
    /\ loop.last_run.check_id # "None"
    /\ loop.tile_i > 1

\* the temporary directories the Executor has on record
TempDirs == {exe.temp_dirs[i] : i \in 1..Len(exe.temp_dirs)}

\* C12: every temporary directory made by preprocessing is on record in
\* temp_dirs before anything is written into it, and by the time the Executor
\* is torn down it is deleted and dropped from temp_dirs, whether run
\* returned, was cancelled or raised.
C12_TempDirsReleased ==
    /\ env.dirs \subseteq TempDirs
    /\ pc = "torn_down" => (env.dirs = {} /\ exe.temp_dirs = <<>>)

\* an Executor torn down after PinkChartProcessor.process raised
C12_Witness ==
    /\ pc = "torn_down"
    /\ ret # <<>>
    /\ ret.where = "_preprocess"
    /\ Len(exe.temp_dirs) = 1

\* a check without its start and end times
StripTimes(check) == [check EXCEPT !.start_time = NoTime, !.end_time = NoTime]

\* what one pass of _run_checks makes of one tile: a fresh instance, started,
\* run and ended
TileInstance(ifd, cp, tile) ==
    LET c0 == [NewCheck(get_check(cp.check_id, exe.checks), cp.params).check EXCEPT
                  !.spatial_export = exe.spatial_export,
                  !.spatial_export_location = exe.spatial_export_location,
                  !.spatial_qajson = exe.spatial_qajson]
        ran == Run(check_started(c0, NoTime), ifd, tile, _load_data(ifd, tile))
    IN  IF ran.raised
        THEN [ran.check EXCEPT !.execution_status = "failed", !.error_message = ran.error]
        ELSE check_ended(ran.check, NoTime)

RECURSIVE FoldTiles(_, _, _, _)
\* the instances of the first n tiles folded by merge_results, each new
\* instance merging the result so far into itself
FoldTiles(ifd, cp, tiles, n) ==
    IF n = 1 THEN TileInstance(ifd, cp, tiles[1])
    ELSE merge_results(TileInstance(ifd, cp, tiles[n]),
                       FoldTiles(ifd, cp, tiles, n - 1)).check

\* C19: when run returns without having been cancelled, for every input file
\* and every known check id in its check list the cache holds exactly one
\* entry under (original input file, check id), and that entry is the fold by
\* merge_results of exactly one fresh instance per tile of the file's tiling,
\* none missing and none twice; an unknown check id has no entry.
C19_OneFoldPerCheck ==
    (pc = "returned" /\ ~loop.stopped) =>
        \A k \in 1..Len(exe.input_file_details) :
            LET ifd == exe.input_file_details[k]
                original == exe.source_input_file_details[k].oid
                tiles == loop.files_and_tiles[k]
            IN  \A j \in 1..Len(ifd.check_ids_and_params) :
                    LET cp == ifd.check_ids_and_params[j]
                        hits == {i \in 1..Len(Cache) :
                                    Cache[i].ifd = original /\ Cache[i].check_id = cp.check_id}
                    IN  IF cp.check_id \in exe.checks
                        THEN /\ Cardinality(hits) = 1
                             /\ \A i \in hits :
                                   StripTimes(Cache[i].check)
                                      = StripTimes(FoldTiles(ifd, cp, tiles, Len(tiles)))
                        ELSE hits = {}

\* run has returned, uncancelled, from a raster of several tiles with a
\* completed check in the cache
C19_Witness ==
    /\ pc = "returned"
    /\ ~loop.stopped
    /\ Len(Cache) > 0
    /\ Len(loop.files_and_tiles[1]) > 1
    /\ \A i \in 1..Len(Cache) : Cache[i].check.execution_status = "completed"

\* C20: every key of check_result_cache refers to input file details as they
\* were before preprocessing, whose source is None, never to a clone, after
\* any number of calls of run on the same Executor.
C20_CacheKeysOriginal ==
    \A i \in 1..Len(Cache) : SourceIfd(Cache[i]).source = 0

\* the cache of a second run over input file details with a coverage vector
C20_Witness ==
    /\ env.runs = 2
    /\ pc = "returned"
    /\ Len(Cache) > 0
    /\ exe.input_file_details[1].pink_chart_filename # "None"

(***************************************************************************)
(* specification: PinkChartProcessor._calc_ideal_extents                   *)
(* Coordinates and resolutions are in tenths of a map unit, so that the    *)
(* quotient d / res is an exact rational.                                  *)
(***************************************************************************)

MaxExtent == 2
MaxRes == 2

Extents(min_x, min_y, max_x, max_y) ==
    [min_x |-> min_x, min_y |-> min_y, max_x |-> max_x, max_y |-> max_y]

\* math.floor(a / b) and math.ceil(a / b) for b > 0
Floor(a, b) == a \div b
Ceil(a, b) == -((-a) \div b)

_calc_ideal_value(res, source_val, target_val, is_min) ==
    LET d == source_val - target_val
        d_units == IF is_min THEN Ceil(d, res) ELSE Floor(d, res)
    IN  source_val - d_units * res

_calc_ideal_extents(source_res_x, source_res_y, source_extents, target_extents) ==
    Extents(
        _calc_ideal_value(source_res_x, source_extents.min_x, target_extents.min_x, TRUE),
        _calc_ideal_value(source_res_y, source_extents.min_y, target_extents.min_y, TRUE),
        _calc_ideal_value(source_res_x, source_extents.max_x, target_extents.max_x, FALSE),
        _calc_ideal_value(source_res_y, source_extents.max_y, target_extents.max_y, FALSE))

\* test_calc_ideal_extents: resolution 0.5, source (-4, 1, 1, 5),
\* target (-6.3, -0.1, 2.1, 4.1)
ExtentsExample ==
    [res_x |-> 5, res_y |-> 5,
     source |-> Extents(-40, 10, 10, 50),
     target |-> Extents(-63, -1, 21, 41)]

ExtentsSet ==
    {e \in [min_x : -MaxExtent..MaxExtent, min_y : -MaxExtent..MaxExtent,
            max_x : -MaxExtent..MaxExtent, max_y : -MaxExtent..MaxExtent] :
        e.min_x < e.max_x /\ e.min_y < e.max_y}

ExtentsArgs ==
    [res_x : 1..MaxRes, res_y : 1..MaxRes, source : ExtentsSet, target : ExtentsSet]
        \cup {ExtentsExample}

InitExtents ==
    /\ pc = "call"
    /\ call \in ExtentsArgs
    /\ ret = <<>>
    /\ exe = Idle
    /\ loop = Idle
    /\ outputs = Idle
    /\ env = Idle

CallCalcIdealExtents ==
    /\ pc = "call"
    /\ pc' = "returned"
    /\ ret' = _calc_ideal_extents(call.res_x, call.res_y, call.source, call.target)
    /\ UNCHANGED <<call, exe, loop, outputs, env>>

SpecExtents == InitExtents /\ [][CallCalcIdealExtents]_vars

\* extent inner lies within extent outer
Contains(outer, inner) ==
    /\ outer.min_x <= inner.min_x /\ inner.max_x <= outer.max_x
    /\ outer.min_y <= inner.min_y /\ inner.max_y <= outer.max_y

\* C13: _calc_ideal_extents returns, for every pair of extents, an extent
\* that contains both the source (raster) extent and the target (coverage
\* vector) extent, and each of its four bounds differs from the source's bound
\* by a whole number of pixels; resolution 0.5, source (-4, 1, 1, 5) and
\* target (-6.3, -0.1, 2.1, 4.1) give (-6.5, -0.5, 2.5, 4.5).
C13_IdealExtents ==
    pc = "returned" =>
        /\ Contains(ret, call.source)
        /\ Contains(ret, call.target)
        /\ (ret.min_x - call.source.min_x) % call.res_x = 0
        /\ (ret.max_x - call.source.max_x) % call.res_x = 0
        /\ (ret.min_y - call.source.min_y) % call.res_y = 0
        /\ (ret.max_y - call.source.max_y) % call.res_y = 0
        /\ call = ExtentsExample => ret = Extents(-65, -5, 25, 45)

\* the call of test_calc_ideal_extents has returned the extent the test expects
C13_Witness ==
    /\ pc = "returned"
    /\ call = ExtentsExample
    /\ ret = Extents(-65, -5, 25, 45)

\* what does hold of the result: it contains the target extent and is aligned
\* with the source's pixel grid
C13_ContainsTargetAligned ==
    pc = "returned" =>
        /\ Contains(ret, call.target)
        /\ (ret.min_x - call.source.min_x) % call.res_x = 0
        /\ (ret.max_x - call.source.max_x) % call.res_x = 0
        /\ (ret.min_y - call.source.min_y) % call.res_y = 0
        /\ (ret.max_y - call.source.max_y) % call.res_y = 0

(***************************************************************************)
(* specification: InputFileDetails.validate                                *)
(* input_band_details is a sequence of (file, band index, band type); the  *)
(* disk says of each file whether gdal.Open finds it and, if so, which of  *)
(* its bands carry a nodata value.                                         *)
(***************************************************************************)

MaxBands == 4
MaxBandIndex == 2

Files == {"f1", "f2"}

BandDetails == [input_file : Files, band_index : 1..MaxBandIndex, band_type : BandTypes]

RECURSIVE SeqsUpTo(_, _)
SeqsUpTo(S, n) ==
    IF n = 0 THEN {<<>>}
    ELSE LET shorter == SeqsUpTo(S, n - 1)
         IN  shorter \cup {Append(s, x) : s \in {q \in shorter : Len(q) = n - 1}, x \in S}

\* a file on disk: whether gdal.Open(filename) finds it (None otherwise) and,
\* per band index, whether GetNoDataValue() is not None
NoFile == [found |-> FALSE, nodata |-> [b \in 1..MaxBandIndex |-> FALSE]]
FilesOnDisk == {NoFile} \cup [found : {TRUE}, nodata : [1..MaxBandIndex -> BOOLEAN]]
Disks ==
    {d \in [Files -> FilesOnDisk] :
        ~d["f2"].found \/ \A b \in 1..MaxBandIndex : d["f2"].nodata[b]}

\* the number of bands of each band type (bandtypes_and_count)
BandTypeCount(details, band_type) ==
    Cardinality({k \in 1..Len(details) : details[k].band_type = band_type})

RECURSIVE NodataMessages(_, _, _)
\* the band loop of validate from band k on: raises at the first file that
\* cannot be opened, otherwise one message per band without nodata
NodataMessages(details, disk, k) ==
    IF k > Len(details) THEN [raised |-> FALSE, messages |-> <<>>]
    ELSE IF ~disk[details[k].input_file].found
         THEN [raised |-> TRUE, messages |-> <<>>]
         ELSE LET rest == NodataMessages(details, disk, k + 1)
                  own == IF disk[details[k].input_file].nodata[details[k].band_index]
                         THEN <<>>
                         ELSE <<[msg |-> "has no nodata value assigned",
                                 input_file |-> details[k].input_file,
                                 band_index |-> details[k].band_index]>>
              IN  [raised |-> rest.raised, messages |-> own \o rest.messages]

validate(details, disk) ==
    LET max3 == IF Len(details) > 3
                THEN <<[msg |-> "A maximum of 3 input bands is expected",
                        provided |-> Len(details)]>>
                ELSE <<>>
        dup_msg == {bt \in BandTypes : BandTypeCount(details, bt) > 1}
        dup == IF dup_msg # {}
               THEN <<[msg |-> "Found more than 1 band defined with the same data type",
                       types |-> dup_msg]>>
               ELSE <<>>
        nodata == NodataMessages(details, disk, 1)
        validation_messages == max3 \o dup \o nodata.messages
    IN  IF nodata.raised
        THEN [raised |-> TRUE, error |-> "RuntimeError: Could not open",
              ok |-> FALSE, messages |-> <<>>]
        ELSE [raised |-> FALSE, error |-> "None",
              ok |-> Len(validation_messages) = 0, messages |-> validation_messages]

InitValidate ==
    /\ pc = "call"
    /\ call \in [input_band_details : SeqsUpTo(BandDetails, MaxBands), disk : Disks]
    /\ ret = <<>>
    /\ exe = Idle
    /\ loop = Idle
    /\ outputs = Idle
    /\ env = Idle

CallValidate ==
    /\ pc = "call"
    /\ pc' = "returned"
    /\ ret' = validate(call.input_band_details, call.disk)
    /\ UNCHANGED <<call, exe, loop, outputs, env>>

SpecValidate == InitValidate /\ [][CallValidate]_vars

\* the band of a detail exists on disk and has no nodata value
LacksNodata(detail, disk) ==
    /\ disk[detail.input_file].found
    /\ ~disk[detail.input_file].nodata[detail.band_index]

CarriesNodata(detail, disk) ==
    /\ disk[detail.input_file].found
    /\ disk[detail.input_file].nodata[detail.band_index]

\* C14: validate returns (True, []) for three bands of distinct band types
\* that all carry a nodata value; whenever there are more than 3 bands, or a
\* band type occurs more than once, or a referenced band has no nodata value,
\* it returns (False, messages) with at least one message, as a value and not
\* as an exception.
C14_ValidateReturnsValue ==
    pc = "returned" =>
        LET details == call.input_band_details
            idx == 1..Len(details)
        IN  /\ ( /\ Len(details) = 3
                 /\ \A bt \in BandTypes : BandTypeCount(details, bt) = 1
                 /\ \A k \in idx : CarriesNodata(details[k], call.disk) )
                => (~ret.raised /\ ret.ok /\ ret.messages = <<>>)
            /\ ( \/ Len(details) > 3
                 \/ \E bt \in BandTypes : BandTypeCount(details, bt) > 1
                 \/ \E k \in idx : LacksNodata(details[k], call.disk) )
                => (~ret.raised /\ ~ret.ok /\ ret.messages # <<>>)

\* validate has reported four bands and a band without nodata, as a value
C14_Witness ==
    /\ pc = "returned"
    /\ Len(call.input_band_details) = 4
    /\ \E k \in 1..4 : LacksNodata(call.input_band_details[k], call.disk)
    /\ ~ret.raised /\ ~ret.ok
    /\ Len(ret.messages) >= 2

(***************************************************************************)
(* specification: inputs_from_qajson_checks                                *)
(* A QA-JSON check is its id, its params, the kind of its first grid file  *)
(* and the band details that _get_tiff_details reads from its grid files.  *)
(* An IFD refers to the QA-JSON checks attached to it by their position in *)
(* the argument list.                                                      *)
(***************************************************************************)

MaxChecks == 3

\* (file, band index, band type) of single band and multi band tiffs
Triples ==
    {[input_file |-> "depth.tif", band_index |-> 1, band_type |-> "depth"],
     [input_file |-> "density.tif", band_index |-> 1, band_type |-> "density"],
     [input_file |-> "all.tif", band_index |-> 1, band_type |-> "depth"]}

TripleLists == {s \in SeqsUpTo(Triples, 2) : \A a, b \in DOMAIN s : a # b => s[a] # s[b]}

\* InputFileDetails.has_same_inputs on the two input_band_details lists
has_same_inputs(self, other) ==
    \A o \in DOMAIN self : \E k \in DOMAIN other :
        /\ other[k].input_file = self[o].input_file
        /\ other[k].band_index = self[o].band_index
        /\ other[k].band_type = self[o].band_type

FileKinds == {"tif", "bag", "density_bag"}

QajsonChecks ==
    {c \in [id : {DensityId, TvuId}, params : {"p1", "p2"}, kind : FileKinds,
            details : TripleLists, coverage : BOOLEAN] :
        /\ c.kind # "tif" => c.details = <<>>
        /\ c.coverage => c.params = "p1"}

\* get_input_details: one IFD for tiffs; none for a _density.bag; none for
\* any other file either, since the last branch tests inputfile[0], the first
\* character of the last file name, for the suffix '.bag'
get_input_details(qajson_check) ==
    IF qajson_check.kind = "tif"
    THEN <<[input_band_details |-> qajson_check.details,
            check_ids_and_params |-> <<>>,
            qajson_checks |-> <<>>,
            pink_chart_filename |-> "None"]>>
    ELSE <<>>

\* the loop over the existing IFDs: every one that has_same_inputs gets the check
AddToExisting(inputs, ci, cid_and_params, n) ==
    [k \in DOMAIN inputs |->
        IF has_same_inputs(inputs[k].input_band_details, ci.input_band_details)
        THEN [inputs[k] EXCEPT !.check_ids_and_params = Append(@, cid_and_params),
                               !.qajson_checks = Append(@, n)]
        ELSE inputs[k]]

RECURSIVE InputsFrom(_, _, _)
\* the loop of inputs_from_qajson_checks from check n on
InputsFrom(qajson_checks, inputs, n) ==
    IF n > Len(qajson_checks) THEN inputs
    ELSE LET qajson_check == qajson_checks[n]
             check_inputs == get_input_details(qajson_check)
             cid_and_params == <<qajson_check.id, qajson_check.params>>
         IN  IF check_inputs = <<>> THEN InputsFrom(qajson_checks, inputs, n + 1)
             ELSE LET ci == check_inputs[1]
                      added == \E k \in DOMAIN inputs :
                                  has_same_inputs(inputs[k].input_band_details,
                                                  ci.input_band_details)
                      new == [ci EXCEPT !.check_ids_and_params = <<cid_and_params>>,
                                        !.qajson_checks = <<n>>,
                                        !.pink_chart_filename =
                                            IF qajson_check.coverage THEN "coverage.shp"
                                            ELSE "None"]
                  IN  InputsFrom(qajson_checks,
                                 IF added
                                 THEN AddToExisting(inputs, ci, cid_and_params, n)
                                 ELSE Append(inputs, new),
                                 n + 1)

inputs_from_qajson_checks(qajson_checks) == InputsFrom(qajson_checks, <<>>, 1)

InitInputs ==
    /\ pc = "call"
    /\ call \in {s \in SeqsUpTo(QajsonChecks, MaxChecks) : Len(s) > 0}
    /\ ret = <<>>
    /\ exe = Idle
    /\ loop = Idle
    /\ outputs = Idle
    /\ env = Idle

CallInputsFromQajsonChecks ==
    /\ pc = "call"
    /\ pc' = "returned"
    /\ ret' = inputs_from_qajson_checks(call)
    /\ UNCHANGED <<call, exe, loop, outputs, env>>

SpecInputs == InitInputs /\ [][CallInputsFromQajsonChecks]_vars

\* the set of (file, band index, band type) triples of a band list
TripleSet(details) == {details[k] : k \in DOMAIN details}

\* the checks of the call that get_input_details gives an IFD for
WithInputs == {n \in DOMAIN call : call[n].kind = "tif"}

\* the returned IFDs that QA-JSON check n is attached to
AttachedTo(n) ==
    {k \in DOMAIN ret : \E q \in DOMAIN ret[k].qajson_checks : ret[k].qajson_checks[q] = n}

\* C15: has_same_inputs(a, b) is true exactly when a and b hold the same set
\* of (file, band index, band type) triples, in any order, so it is
\* symmetric; inputs_from_qajson_checks puts two QA-JSON checks into one IFD,
\* whose check list holds the (check_id, params) tuples of its checks in
\* order, exactly when their band sets are identical, and checks with
\* different band sets get separate IFDs.
C15_SameInputsCoalesce ==
    pc = "returned" =>
        /\ \A a, b \in WithInputs :
              /\ has_same_inputs(call[a].details, call[b].details)
                    <=> TripleSet(call[a].details) = TripleSet(call[b].details)
              /\ a # b =>
                    ((AttachedTo(a) \cap AttachedTo(b) # {})
                        <=> TripleSet(call[a].details) = TripleSet(call[b].details))
        /\ \A k \in DOMAIN ret :
              /\ Len(ret[k].check_ids_and_params) = Len(ret[k].qajson_checks)
              /\ \A q \in DOMAIN ret[k].qajson_checks :
                    ret[k].check_ids_and_params[q] =
                        <<call[ret[k].qajson_checks[q]].id,
                          call[ret[k].qajson_checks[q]].params>>

\* two checks whose band lists hold the same two triples in different order
\* have been put into one IFD
C15_Witness ==
    /\ pc = "returned"
    /\ Len(call) = 2
    /\ Len(call[1].details) = 2
    /\ call[1].details # call[2].details
    /\ TripleSet(call[1].details) = TripleSet(call[2].details)
    /\ Len(ret) = 1
    /\ ret[1].qajson_checks = <<1, 2>>

(***************************************************************************)
(* specification: DensityCheck.get_outputs with the parameters of          *)
(* test_density_threshold_at_percentage, which include 'Minimum Soundings  *)
(* per node at percentage'                                                 *)
(***************************************************************************)

\* the required percentages, with the 89 of the test
AtPercentages == Percentages \cup {89}

InitDensityAtPercentage ==
    /\ pc = "get_outputs"
    /\ \E h \in TileHists \cup {ThresholdExample}, min_spn \in MinSoundings,
          min_spn_ap \in MinSoundings, min_spn_p \in AtPercentages :
          call = [NewCheck(DensityId,
                           <<Param("Minimum Soundings per node", min_spn),
                             Param("Minimum Soundings per node at percentage", min_spn_ap),
                             Param("Minimum Soundings per node percentage", min_spn_p)>>).check
                     EXCEPT !.density_histogram = h,
                            !.attrs = @ \cup {"density_histogram"},
                            !.execution_status = "completed"]
    /\ ret = <<>>
    /\ exe = Idle
    /\ loop = Idle
    /\ outputs = Idle
    /\ env = Idle

SpecDensityAtPercentage == InitDensityAtPercentage /\ [][NextDensityOutputs]_vars

\* C16: the percentage criterion of DensityCheck counts the nodes below
\* 'Minimum Soundings per node at percentage', whatever 'Minimum Soundings per
\* node' is: the check fails when less than the required percentage of nodes
\* has at least that many soundings, and with a minimum of 0, 5 at percentage
\* and 89 percent required, 2 of 17 nodes under 5 give fail.
C16_AtPercentageCounts ==
    pc = "got_outputs" =>
        LET h == call.density_histogram
            min_spn_ap == get_param(call.input_params,
                                    "Minimum Soundings per node at percentage").value
            min_spn_p == call.p["Minimum Soundings per node percentage"].value
            total == SumOver(h, DOMAIN h)
            under_ap == SumOver(h, {c \in DOMAIN h : c < min_spn_ap})
        IN  /\ ~ret.raised
            /\ (DOMAIN h # {} /\ (total - under_ap) * 100 < min_spn_p * total) =>
                  ret.check_state = "fail"
            /\ ( /\ h = ThresholdExample
                 /\ call.p["Minimum Soundings per node"].value = 0
                 /\ min_spn_ap = 5
                 /\ min_spn_p = 89 ) => ret.check_state = "fail"

\* the call of test_density_threshold_at_percentage has returned its outputs
C16_Witness ==
    /\ pc = "got_outputs"
    /\ call.density_histogram = ThresholdExample
    /\ call.p["Minimum Soundings per node"].value = 0
    /\ get_param(call.input_params, "Minimum Soundings per node at percentage").value = 5
    /\ call.p["Minimum Soundings per node percentage"].value = 89
    /\ ~ret.raised

(***************************************************************************)
(* specification: TvuCheck.run and ResolutionCheck.run on one tile         *)
(* The arrays are handed to run directly, as the unit tests do, each band  *)
(* with a mask of its own.  Reals are scaled to integers: for TVU the      *)
(* uncertainty and 'Constant Depth Error' are in thousandths and 'Factor   *)
(* of Depth Dependent Errors' is per thousand; for the resolution check    *)
(* the FDS multipliers and constants are times 1000, 'Feature Detection    *)
(* Size Multiplier' is times 10 and the pixel width times 10000.           *)
(***************************************************************************)

MaxRunCells == 2

\* np.ma.array(data, mask=mask)
MaskedArray(val, mask) == [kind |-> "masked", val |-> val, mask |-> mask]

\* the arrays over a tile whose cells are masked or hold one of the values
ArraysOver(tile, values) ==
    {MaskedArray(v, [c \in TileCells(tile) |-> v[c] = NoDataValue]) :
        v \in [TileCells(tile) -> values \cup {NoDataValue}]}

\* the 4 x 5 arrays of the unit tests, row by row
ExampleTile == Tile(0, 0, 4, 5)
FromRows(rows) == [c \in TileCells(ExampleTile) |-> rows[c[2] + 1][c[1] + 1]]
ExampleMask ==
    FromRows(<<<<FALSE, FALSE, FALSE, FALSE>>,
               <<FALSE, FALSE, FALSE, FALSE>>,
               <<FALSE, FALSE, FALSE, FALSE>>,
               <<FALSE, FALSE, FALSE, TRUE>>,
               <<FALSE, FALSE, TRUE, TRUE>>>>)
ExampleDepth ==
    MaskedArray(FromRows(<<<<-40, -40, -40, -40>>,
                           <<-40, -60, -80, -40>>,
                           <<-40, -60, -70, -40>>,
                           <<-40, -30, -70, -40>>,
                           <<-40, -40, -40, -40>>>>), ExampleMask)
ExampleUncertainty ==
    MaskedArray(FromRows(<<<<700, 700, 200, 200>>,
                           <<700, 400, 200, 200>>,
                           <<200, 200, 200, 900>>,
                           <<200, 200, 900, 0>>,
                           <<200, 200, 200, 0>>>>), ExampleMask)

TileData(depth, uncertainty) ==
    [depth |-> depth, density |-> NoArray, uncertainty |-> uncertainty, pinkchart |-> NoArray]

\* what run reads of the InputFileDetails: the pixel width geotransform[1]
RunIfd(pixel_width) == [geotransform |-> <<0, pixel_width, 0, 0, 0, 0>>]

TvuCall(a, b, tile, depth, uncertainty) ==
    [check |-> NewCheck(TvuId, <<Param("Constant Depth Error", a),
                                 Param("Factor of Depth Dependent Errors", b)>>).check,
     ifd |-> RunIfd(0),
     tile |-> tile,
     d |-> TileData(depth, uncertainty)]

ResolutionCall(m, t, am, ac, bm, bc, pixel_width, tile, depth) ==
    [check |-> NewCheck(ResolutionId,
                        <<Param("Feature Detection Size Multiplier", m),
                          Param("Threshold Depth", t),
                          Param("Above Threshold FDS Depth Multiplier", am),
                          Param("Above Threshold FDS Depth Constant", ac),
                          Param("Below Threshold FDS Depth Multiplier", bm),
                          Param("Below Threshold FDS Depth Constant", bc)>>).check,
     ifd |-> RunIfd(pixel_width),
     tile |-> tile,
     d |-> TileData(depth, NoArray)]

\* test_tvu: a = 0.1, b = 0.007
TvuExample == TvuCall(100, 7, ExampleTile, ExampleDepth, ExampleUncertainty)

\* test_resolution: multiplier 1.5, threshold 40, above 0 d + 2, below
\* 0.025 d + 0, pixel width 2
ResolutionExample == ResolutionCall(15, 40, 0, 2000, 25, 0, 20000, ExampleTile, ExampleDepth)

\* the calls of the unit tests, and every call on a tile of MaxRunCells cells
\* with depths among -4, 3, 5 and uncertainties among -6, 5, 6, each band with
\* its own masked cells
InitTileRun ==
    /\ pc = "run"
    /\ LET tile == Tile(0, 0, MaxRunCells, 1)
           depths == ArraysOver(tile, {-4, 3, 5})
           uncertainties == ArraysOver(tile, {-6, 5, 6})
       IN  \/ call \in {TvuExample, ResolutionExample}
           \/ \E a \in {0, 3}, b \in {0, 1}, depth \in depths, uncertainty \in uncertainties :
                 call = TvuCall(a, b, tile, depth, uncertainty)
           \/ \E m \in {1, 2}, t \in {-4, 4}, am \in {0, 1}, ac \in {0, 2}, bm \in {0, 1},
                 pixel_width \in {2, 4}, depth \in depths :
                 call = ResolutionCall(m, t, am, ac, bm, 0, pixel_width, tile, depth)
    /\ ret = <<>>
    /\ exe = Idle
    /\ loop = Idle
    /\ outputs = Idle
    /\ env = Idle

CallRun ==
    /\ pc = "run"
    /\ pc' = "ran"
    /\ ret' = Run(call.check, call.ifd, call.tile, call.d)
    /\ UNCHANGED <<call, exe, loop, outputs, env>>

SpecTileRun == InitTileRun /\ [][CallRun]_vars

\* C17: TvuCheck.run on one tile sets total_cell_count to the number of
\* non-masked uncertainty cells and failed_cell_count to the number of cells,
\* non-masked in both depth and uncertainty, where
\* |uncertainty| > sqrt(a^2 + (b * depth)^2); a masked cell is never a failure;
\* the 4 x 5 example with a = 0.1, b = 0.007 and 3 masked cells gives total 17
\* and failed 5.
C17_TvuRunCounts ==
    (pc = "ran" /\ call.check.id = TvuId) =>
        LET u == call.d.uncertainty
            depth == call.d.depth
            a == call.check.p["Constant Depth Error"].value
            b == call.check.p["Factor of Depth Dependent Errors"].value
            exceeds(c) == Abs(u.val[c]) * Abs(u.val[c])
                            > a * a + (b * depth.val[c]) * (b * depth.val[c])
            cells == TileCells(call.tile)
        IN  /\ ~ret.raised
            /\ ret.check.total_cell_count = Cardinality({c \in cells : ~u.mask[c]})
            /\ ret.check.failed_cell_count =
                  Cardinality({c \in cells : ~u.mask[c] /\ ~depth.mask[c] /\ exceeds(c)})
            /\ call = TvuExample =>
                  /\ ret.check.total_cell_count = 17
                  /\ ret.check.failed_cell_count = 5

\* a tile with a cell whose depth is masked while its uncertainty is not and
\* exceeds the allowable value, next to a cell that fails
C17_Witness ==
    /\ pc = "ran"
    /\ call.check.id = TvuId
    /\ call.tile # ExampleTile
    /\ \E c \in TileCells(call.tile) :
          /\ call.d.depth.mask[c]
          /\ ~call.d.uncertainty.mask[c]
          /\ Abs(call.d.uncertainty.val[c]) > call.check.p["Constant Depth Error"].value
          /\ call.check.p["Factor of Depth Dependent Errors"].value = 0
    /\ ret.check.total_cell_count = MaxRunCells
    /\ ret.check.failed_cell_count = MaxRunCells - 1

\* C18: ResolutionCheck.run on one tile sets total_cell_count to the number
\* of non-masked depth cells and failed_cell_count to the number of non-masked
\* cells where fds(|depth|) * 'Feature Detection Size Multiplier' is below the
\* pixel width of the geotransform, fds(d) being the above-threshold line for
\* d < |Threshold Depth| and the below-threshold line otherwise, so that a
\* depth exactly at the threshold is on the below-threshold line; the example
\* (pixel width 2, multiplier 1.5, threshold 40, above 0 d + 2, below
\* 0.025 d + 0) gives total 17 and failed 11.
C18_ResolutionRunCounts ==
    (pc = "ran" /\ call.check.id = ResolutionId) =>
        LET depth == call.d.depth
            p(n) == call.check.p[n].value
            threshold == Abs(p("Threshold Depth"))
            line(d) == IF d < threshold
                       THEN p("Above Threshold FDS Depth Multiplier") * d
                              + p("Above Threshold FDS Depth Constant")
                       ELSE p("Below Threshold FDS Depth Multiplier") * d
                              + p("Below Threshold FDS Depth Constant")
            fails(c) == line(Abs(depth.val[c])) * p("Feature Detection Size Multiplier")
                          < call.ifd.geotransform[2]
            cells == TileCells(call.tile)
        IN  /\ ~ret.raised
            /\ ret.check.total_cell_count = Cardinality({c \in cells : ~depth.mask[c]})
            /\ ret.check.failed_cell_count =
                  Cardinality({c \in cells : ~depth.mask[c] /\ fails(c)})
            /\ call = ResolutionExample =>
                  /\ ret.check.total_cell_count = 17
                  /\ ret.check.failed_cell_count = 11

\* the run of test_resolution: the 11 unmasked cells at the threshold depth of
\* 40 fail on the below-threshold line (1.0 * 1.5 < 2)
C18_Witness ==
    /\ pc = "ran"
    /\ call = ResolutionExample
    /\ ret.check.total_cell_count = 17
    /\ ret.check.failed_cell_count = 11

\* ------------------------------------- properties of the checks of a run

\* the execution_status of one instance along one pass of _run_checks: as
\* constructed, after check_started, as run left it, and after check_ended or
\* the except clause
StatusTrail(ifd, cp, tile) ==
    LET c0 == [NewCheck(get_check(cp.check_id, exe.checks), cp.params).check EXCEPT
                  !.spatial_export = exe.spatial_export,
                  !.spatial_export_location = exe.spatial_export_location,
                  !.spatial_qajson = exe.spatial_qajson]
        c1 == check_started(c0, loop.now)
        ran == Run(c1, ifd, tile, _load_data(ifd, tile))
        c2 == IF ran.raised
              THEN [ran.check EXCEPT !.execution_status = "failed",
                                     !.error_message = ran.error]
              ELSE check_ended(ran.check, loop.now + 1)
    IN  [constructed |-> c0.execution_status,
         started |-> c1.execution_status,
         ran |-> ran.check.execution_status,
         raised |-> ran.raised,
         ended |-> c2.execution_status]

TerminalStatus == {"completed", "failed", "aborted"}

\* C21: the execution_status of a check instance moves only along
\* draft -> running -> completed | failed | aborted: check_started sets
\* running, run may set aborted, check_ended turns running into completed and
\* leaves aborted alone, the Executor sets failed when run raises, merge_results
\* does not change the status reached, and every check in check_result_cache
\* has a terminal status.
C21_StatusMachine ==
    [][(/\ pc = "checks"
        /\ loop.check_i <= Len(CurrentIfd.check_ids_and_params)
        /\ exe'.check_result_cache # exe.check_result_cache) =>
          LET cp == CurrentIfd.check_ids_and_params[loop.check_i]
              trail == StatusTrail(CurrentIfd, cp, CurrentTile)
              src_ifd == IF CurrentIfd.source # 0 THEN CurrentIfd.source ELSE CurrentIfd.oid
              at == CacheIndex(exe'.check_result_cache, src_ifd, cp.check_id)
          IN  /\ trail.constructed = "draft"
              /\ trail.started = "running"
              /\ trail.ran \in {"running", "aborted"}
              /\ trail.ended = IF trail.raised THEN "failed"
                               ELSE IF trail.ran = "running" THEN "completed"
                               ELSE "aborted"
              /\ at # 0
              /\ exe'.check_result_cache[at].check.execution_status = trail.ended
              /\ \A i \in 1..Len(exe'.check_result_cache) :
                    exe'.check_result_cache[i].check.execution_status \in TerminalStatus]_vars

\* a run over several tiles has returned with a failed and a completed check
\* in the cache
C21_Witness ==
    /\ pc = "returned"
    /\ TileCount > 1
    /\ \E i, j \in 1..Len(Cache) :
          /\ Cache[i].check.execution_status = "failed"
          /\ Cache[j].check.execution_status = "completed"
          /\ Cache[j].check.total_cell_count > 0

\* ------------------------------------ properties of the callbacks of a run

\* whether preprocessing has left a trace: a temporary directory was made or
\* recorded, the list of the originals was taken, or a clone is in the list
Preprocessed ==
    \/ env.dirs # {}
    \/ exe.temp_dirs # <<>>
    \/ exe.source_input_file_details # <<>>
    \/ \E i \in 1..Len(exe.input_file_details) : exe.input_file_details[i].source # 0

\* C22: run polls is_stopped before preprocessing starts, before each tile is
\* loaded and before each check of a tile is instantiated, so that a stop
\* requested before run is called prevents preprocessing: with such a stop no
\* temporary directory is made, no input file details are replaced by a
\* clone, no tile is loaded and no check is run.
C22_StopPreventsPreprocessing ==
    env.is_stopped = "stopped" =>
        /\ ~Preprocessed
        /\ pc # "checks"
        /\ exe.check_result_cache = <<>>

\* a run that was called with the stop already requested and a coverage
\* vector to process has returned, without a tile loaded
C22_Witness ==
    /\ env.is_stopped = "stopped"
    /\ pc = "returned"
    /\ loop.stopped
    /\ loop.processed_tile_count = 0
    /\ exe.check_result_cache = <<>>
    /\ exe.source_input_file_details # <<>>
    /\ exe.source_input_file_details[1].pink_chart_filename # "None"

\* what a progress callback was told, as the run is said to tell it: 0 first,
\* 0.05 second, and from there on values that never decrease and stay within
\* [0.05, 1]
ProgressOrdered(progress) ==
    /\ Len(progress) >= 1 => progress[1] = Rational(0, 1)
    /\ Len(progress) >= 2 => progress[2] = Rational(1, 20)
    /\ \A i \in 2..Len(progress) :
          AtMost(Rational(1, 20), progress[i]) /\ AtMost(progress[i], Rational(1, 1))
    /\ \A i \in 2..(Len(progress) - 1) : AtMost(progress[i], progress[i + 1])

\* 0.05 + 0.95 * (k + part) / N, the point at the given part of tile k of N
SpanPoint(k, part, N) ==
    Plus(Rational(1, 20),
         Times(Rational(19, 20), Times(Plus(Rational(k, 1), part), Rational(1, N))))

\* one step of a run seen by its progress callback: the order of the values,
\* 0 and then 0.05 around preprocessing, the start of the tile and 20% of its
\* span once it is loaded, the linear share of the remaining 80% as each of
\* its checks completes, and the end of its span when the tile is done
ProgressStep ==
    LET told == env'.progress
        N == total_file_and_tile_count(loop'.files_and_tiles)
        k == loop.processed_tile_count
        cps == CurrentIfd.check_ids_and_params
        known == {c \in 1..Len(cps) : cps[c].check_id \in all_checks}
        done == {c \in known : c <= loop.check_i}
    IN  /\ ProgressOrdered(told)
        /\ (pc = "start" /\ pc' = "raised") => told = <<Rational(0, 1)>>
        /\ (pc = "start" /\ pc' = "tile") => told = <<Rational(0, 1), Rational(1, 20)>>
        /\ (pc = "tile" /\ pc' = "checks") =>
              told = env.progress \o <<SpanPoint(k, Rational(0, 1), N),
                                       SpanPoint(k, Rational(1, 5), N)>>
        /\ (/\ pc = "checks" /\ pc' = "checks"
            /\ loop'.now # loop.now) =>
              told = Append(env.progress,
                            SpanPoint(k, Rational(Cardinality(known)
                                                  + 4 * Cardinality(done),
                                                  5 * Cardinality(known)), N))
        /\ (pc = "checks" /\ pc' = "tile") =>
              told = Append(env.progress, SpanPoint(k, Rational(1, 1), N))

\* C23: with a progress callback, run reports 0 first, 0.05 once
\* preprocessing is complete, then values that never decrease within
\* [0.05, 1]: tile k of N spans 0.05+0.95*k/N to 0.05+0.95*(k+1)/N, with an
\* update at 20% of the span after the tile is loaded and linear updates as
\* its checks complete; a run that is not cancelled ends with the value 1.
C23_ProgressReports ==
    [][env'.progress_callback # "None" =>
          /\ ProgressStep
          /\ (pc = "tile" /\ pc' = "returned" /\ ~loop'.stopped) =>
                /\ env'.progress # <<>>
                /\ env'.progress[Len(env'.progress)] = Rational(1, 1)]_vars

\* the same for the runs that have a tile to process
C23_ProgressOverTiles ==
    [][env'.progress_callback # "None" =>
          /\ ProgressStep
          /\ (/\ pc = "tile" /\ pc' = "returned" /\ ~loop'.stopped
              /\ total_file_and_tile_count(loop'.files_and_tiles) > 0) =>
                /\ env'.progress # <<>>
                /\ env'.progress[Len(env'.progress)] = Rational(1, 1)]_vars

\* a run over no input file has returned, and its progress callback was last
\* told 0.05
C23_Witness ==
    /\ pc = "returned"
    /\ ~loop.stopped
    /\ exe.input_file_details = <<>>
    /\ env.progress = <<Rational(0, 1), Rational(1, 20)>>

\* every tile of every input file has been through the tile loop
AllTilesFinished ==
    /\ loop.ifd_i > Len(loop.files_and_tiles)
    /\ loop.processed_tile_count = total_file_and_tile_count(loop.files_and_tiles)

\* C24: the qajson_update_callback passed to Executor.run is invoked exactly
\* once per run, after all tiles of all input files have finished, and never
\* per tile or before the last tile has finished: while run is in its tile
\* loop the callback has been called once for each earlier run, and when run
\* has returned with all tiles finished once for each run.
C24_QajsonUpdateOncePerRun ==
    env.qajson_update_callback # "None" =>
        /\ pc \in {"tile", "checks"} => env.qajson_updates = env.runs - 1
        /\ (pc = "returned" /\ AllTilesFinished) => env.qajson_updates = env.runs

\* run was given the callback and has returned after the last of several
\* tiles with results in its cache, and the callback has not been called
C24_Witness ==
    /\ env.qajson_update_callback # "None"
    /\ pc = "returned"
    /\ AllTilesFinished
    /\ ~loop.stopped
    /\ loop.processed_tile_count > 1
    /\ exe.check_result_cache # <<>>
    /\ env.qajson_updates = 0

(***************************************************************************)
(* specification: Executor._preprocess                                     *)
(* the Executor holds up to MaxIfds input file details, each with or       *)
(* without a coverage vector, and _preprocess is called on it up to        *)
(* MaxRuns times.                                                          *)
(***************************************************************************)

MaxIfds == 2

BandDetail(dir, name, band_index, band_type) ==
    [input_file |-> RasterFile(dir, name), band_index |-> band_index,
     band_type |-> band_type]

\* the band details an input may come with: a depth raster, one raster per
\* band, or the three bands of one raster
PreBandLists ==
    { <<BandDetail(0, "depth", 1, "depth")>>,
      <<BandDetail(0, "depth", 1, "depth"), BandDetail(0, "density", 1, "density"),
        BandDetail(0, "uncertainty", 1, "uncertainty")>>,
      <<BandDetail(0, "all", 1, "depth"), BandDetail(0, "all", 3, "density"),
        BandDetail(0, "all", 2, "uncertainty")>> }

PreIfd(oid, details, coverage) ==
    LET bands == [b \in BandTypes |->
                     LET given == \E k \in 1..Len(details) : details[k].band_type = b
                     IN  Band(given, given)]
        data == [c \in TileCells(Tile(0, 0, 1, 1)) |->
                    [depth |-> -2, density |-> 1, uncertainty |-> -3, pinkChart |-> 0]]
        ifd == InputFileDetails(oid, <<1, 1>>, data, bands, <<>>)
    IN  WithPinkChart([ifd EXCEPT !.input_band_details = details], coverage)

InitPreprocess ==
    /\ pc = "start"
    /\ call = Idle
    /\ ret = <<>>
    /\ outputs = <<>>
    /\ loop = Idle
    /\ env = Caller("None", "None", "None")
    /\ \E n \in 0..MaxIfds, spatial \in SpatialConfigs :
       \E kinds \in [1..n -> PreBandLists \X BOOLEAN] :
          exe = Executor([i \in 1..n |-> PreIfd(i, kinds[i][1], kinds[i][2])],
                         1, 1, spatial)

\* a call of Executor._preprocess, as run makes it
CallPreprocess ==
    /\ pc \in {"start", "preprocessed"}
    /\ env.runs < MaxRuns
    /\ \E ok \in ProcessOutcomes(exe) :
          LET pre == _preprocess(exe, env.dirs, ok)
          IN  /\ exe' = pre.exe
              /\ env' = [env EXCEPT !.dirs = pre.dirs, !.runs = @ + 1]
              /\ pc' = IF pre.raised THEN "raised" ELSE "preprocessed"
              /\ ret' = IF pre.raised THEN [where |-> "_preprocess", error |-> pre.error]
                        ELSE <<>>
    /\ UNCHANGED <<call, loop, outputs>>

SpecPreprocess == InitPreprocess /\ [][CallPreprocess]_vars

\* what a call of _preprocess that returns has done to the list: every input
\* file details with a coverage vector is replaced, in its place, by a clone
\* of it with its bands re-written in a new temporary directory and one
\* pinkChart band, the others are left alone, and
\* source_input_file_details is the list as it was
PreprocessFrame ==
    LET old == exe.input_file_details
        new == exe'.input_file_details
        covered == {i \in 1..Len(old) : old[i].pink_chart_filename # "None"}
        dir(i) == new[i].input_band_details[Len(new[i].input_band_details)].input_file.dir
    IN  /\ Len(new) = Len(old)
        /\ exe'.source_input_file_details = old
        /\ \A i \in (1..Len(old)) \ covered : new[i] = old[i]
        /\ \A i \in covered :
              LET was == old[i].input_band_details
                  now == new[i].input_band_details
              IN  /\ new[i].source = old[i].oid
                  /\ new[i].oid \notin {old[j].oid : j \in 1..Len(old)}
                  /\ Len(now) = Len(was) + 1
                  /\ \A k \in 1..Len(was) :
                        /\ now[k].band_index = was[k].band_index
                        /\ now[k].band_type = was[k].band_type
                        /\ now[k].input_file = RasterFile(dir(i), was[k].input_file.name)
                  /\ now[Len(now)] = BandDetail(dir(i), "pinkchart", 1, "pinkChart")
                  /\ Cardinality({k \in 1..Len(now) : now[k].band_type = "pinkChart"}) = 1
                  /\ dir(i) \notin env.dirs
                  /\ dir(i) \in env'.dirs
                  /\ \A j \in covered \ {i} : dir(j) # dir(i)

\* C25: _preprocess replaces, at the same list position, every input file
\* details with a coverage vector by a clone whose source is the one it
\* replaces and whose bands are one band per band of that one, with the same
\* band index and band type and the file re-written in a new temporary
\* directory, plus exactly one pinkChart band, band 1 of the mask raster;
\* input file details without a coverage vector stay as they were; the
\* objects that were in the list are not modified, and
\* source_input_file_details holds them in their order.
C25_PreprocessFrame == [][pc' = "preprocessed" => PreprocessFrame]_vars

\* the same for the first call on an Executor
C25_FirstCallFrame ==
    [][(pc = "start" /\ pc' = "preprocessed") => PreprocessFrame]_vars

\* a second call has replaced the clone of the first call by a clone with
\* two pinkChart bands, next to input file details without a coverage vector
C25_Witness ==
    /\ pc = "preprocessed"
    /\ env.runs = 2
    /\ Len(exe.input_file_details) = 2
    /\ exe.input_file_details[1].source = 0
    /\ exe.source_input_file_details[2].source # 0
    /\ exe.input_file_details[2].source = exe.source_input_file_details[2].oid
    /\ Cardinality({k \in 1..Len(exe.input_file_details[2].input_band_details) :
                       exe.input_file_details[2].input_band_details[k].band_type
                           = "pinkChart"}) = 2

\* ------------------------------------------ properties of the spatial part

\* whether the tiles a cached check has seen held a cell that fails it: a
\* node with fewer soundings than the minimum, or a counted failure
HasFailingCells(check) ==
    IF check.id = DensityId
    THEN \E v \in DOMAIN check.density_histogram :
            /\ v < check.p["Minimum Soundings per node"].value
            /\ check.density_histogram[v] > 0
    ELSE check.failed_cell_count > 0

\* C26: the polygons are skipped only when spatial_qajson and spatial_export
\* are both false: whenever spatial_qajson is true and a tile has failing
\* cells the polygons are computed and accumulated into tiles_geojson,
\* whether or not spatial_export is set or an export location is configured.
C26_PolygonsForQajson ==
    \A i \in 1..Len(Cache) :
        LET check == Cache[i].check
        IN  (/\ check.spatial_qajson
             /\ check.execution_status = "completed"
             /\ HasFailingCells(check)) => check.tiles_geojson # {}

\* a run with the default settings has returned with a completed TVU check
\* that counted failing cells and holds no polygon
C26_Witness ==
    /\ pc = "returned"
    /\ ~exe.spatial_export
    /\ ~exe.spatial_export_location
    /\ exe.spatial_qajson
    /\ \E i \in 1..Len(Cache) :
          /\ Cache[i].check.id = TvuId
          /\ Cache[i].check.execution_status = "completed"
          /\ Cache[i].check.failed_cell_count > 0
          /\ Cache[i].check.tiles_geojson = {}

(***************************************************************************)
(* specification: GridCheck.get_param                                      *)
(* a check holds up to MaxParams parameters, names and values among a few, *)
(* the same name possibly more than once, and is asked for one name.       *)
(***************************************************************************)

MaxParams == 3

InitGetParam ==
    /\ pc = "get_param"
    /\ call \in [input_params : SeqsUpTo([name : {"a", "b"}, value : {1, 2}], MaxParams),
                  param_name : {"a", "b", "c"}]
    /\ ret = <<>>
    /\ exe = Idle
    /\ loop = Idle
    /\ outputs = Idle
    /\ env = Idle

CallGetParam ==
    /\ pc = "get_param"
    /\ pc' = "returned"
    /\ ret' = get_param(call.input_params, call.param_name)
    /\ UNCHANGED <<call, exe, loop, outputs, env>>

SpecGetParam == InitGetParam /\ [][CallGetParam]_vars

\* C27: get_param(name) returns the value of the first parameter with that
\* name, and returns None without raising when no parameter has the name,
\* whether input_params is empty or not.
C27_GetParamFirstOrNone ==
    pc = "returned" =>
        LET params == call.input_params
            named == {i \in 1..Len(params) : params[i].name = call.param_name}
        IN  IF named = {} THEN ret = NoParam
            ELSE /\ ret.status = "value"
                 /\ \E i \in named :
                       /\ \A j \in named : i <= j
                       /\ ret.value = params[i].value

\* get_param was asked for a name that none of its parameters has
C27_Witness ==
    /\ pc = "returned"
    /\ Len(call.input_params) > 0
    /\ \A i \in 1..Len(call.input_params) : call.input_params[i].name # call.param_name
    /\ ret.status = "StopIteration"

\* ------------------------------------- properties of failures across tiles

\* C28: failure is sticky across tiles: if the instance of any tile ended
\* failed, the merged cache entry after the last tile is not completed and
\* its error_message is not None, whichever tile it was that failed.
C28_FailureSticky ==
    (pc = "returned" /\ ~loop.stopped) =>
        \A k \in 1..Len(exe.input_file_details) :
            LET ifd == exe.input_file_details[k]
                src_ifd == IF ifd.source # 0 THEN ifd.source ELSE ifd.oid
                tiles == loop.files_and_tiles[k]
            IN  \A j \in 1..Len(ifd.check_ids_and_params) :
                    LET cp == ifd.check_ids_and_params[j]
                        at == CacheIndex(Cache, src_ifd, cp.check_id)
                    IN  (/\ cp.check_id \in exe.checks
                         /\ \E n \in 1..Len(tiles) :
                               TileInstance(ifd, cp, tiles[n]).execution_status = "failed") =>
                            /\ at # 0
                            /\ Cache[at].check.execution_status # "completed"
                            /\ Cache[at].check.error_message # "None"

\* run has returned with a completed entry without an error message for a
\* check whose instance of the first tile ended failed
C28_Witness ==
    /\ pc = "returned"
    /\ ~loop.stopped
    /\ TileCount > 1
    /\ \E j \in 1..Len(exe.input_file_details[1].check_ids_and_params) :
          LET ifd == exe.input_file_details[1]
              cp == ifd.check_ids_and_params[j]
              at == CacheIndex(Cache, ifd.oid, cp.check_id)
          IN  /\ cp.check_id \in exe.checks
              /\ TileInstance(ifd, cp, loop.files_and_tiles[1][1]).execution_status = "failed"
              /\ at # 0
              /\ Cache[at].check.execution_status = "completed"
              /\ Cache[at].check.error_message = "None"

\* C29: when the check list of an input file holds the same check id more
\* than once with different parameters, the results of the two checks are
\* kept separate and each ends with its own result: after an uncancelled run
\* every entry of the check list has a cached check with its parameters that
\* is the fold of its own instances over the tiles.
C29_SameIdKeptSeparate ==
    (pc = "returned" /\ ~loop.stopped) =>
        \A k \in 1..Len(exe.input_file_details) :
            LET ifd == exe.input_file_details[k]
                src_ifd == IF ifd.source # 0 THEN ifd.source ELSE ifd.oid
                tiles == loop.files_and_tiles[k]
            IN  \A j \in 1..Len(ifd.check_ids_and_params) :
                    LET cp == ifd.check_ids_and_params[j]
                    IN  cp.check_id \in exe.checks =>
                            \E i \in 1..Len(Cache) :
                                /\ Cache[i].ifd = src_ifd
                                /\ Cache[i].check_id = cp.check_id
                                /\ Cache[i].check.input_params = cp.params
                                /\ StripTimes(Cache[i].check)
                                     = StripTimes(FoldTiles(ifd, cp, tiles, Len(tiles)))

\* a first run over two density checks with different parameters has
\* returned with one density entry, which has the parameters of the second
C29_Witness ==
    /\ pc = "returned"
    /\ ~loop.stopped
    /\ env.runs = 1
    /\ Len(exe.input_file_details) = 1
    /\ LET cps == exe.input_file_details[1].check_ids_and_params
           density == {i \in 1..Len(Cache) : Cache[i].check_id = DensityId}
       IN  /\ cps[1].check_id = DensityId
           /\ cps[2].check_id = DensityId
           /\ cps[1].params # cps[2].params
           /\ Cardinality(density) = 1
           /\ \A i \in density : Cache[i].check.input_params = cps[2].params

\* ------------------------------- properties of the attachment of checks

\* the places (IFD, position) at which QA-JSON check n is attached
AttachedAt(n) ==
    {kq \in (DOMAIN ret) \X (1..MaxChecks) :
        /\ kq[2] \in DOMAIN ret[kq[1]].qajson_checks
        /\ ret[kq[1]].qajson_checks[kq[2]] = n}

\* C30: inputs_from_qajson_checks attaches every QA-JSON check that resolves
\* to grid input to exactly one IFD: the check is once in the qajson_checks
\* of one IFD and in those of no other, and its (check_id, params) tuple is
\* at the same place of that IFD's check_ids_and_params, for every sequence
\* of checks.
C30_AttachedExactlyOnce ==
    pc = "returned" =>
        \A n \in WithInputs :
            /\ Cardinality(AttachedAt(n)) = 1
            /\ \A kq \in AttachedAt(n) :
                  /\ kq[2] \in DOMAIN ret[kq[1]].check_ids_and_params
                  /\ ret[kq[1]].check_ids_and_params[kq[2]] = <<call[n].id, call[n].params>>

\* the third check, over two rasters, has been attached to the IFD of the
\* first check and to the IFD of the second, each over one of the rasters
C30_Witness ==
    /\ pc = "returned"
    /\ Len(call) = 3
    /\ Len(call[1].details) = 1
    /\ Len(call[2].details) = 1
    /\ Len(call[3].details) = 2
    /\ Len(ret) = 2
    /\ AttachedAt(3) = {<<1, 2>>, <<2, 2>>}

====
